---- MODULE Spec2Model ----
(***************************************************************************)
(* The pipeline coordinator of the multi-agent retail analysis system      *)
(* (multi_agent/agents/coordinator_agent.py) and its message broker       *)
(* (multi_agent/core/message_broker.py) as state machines, with a worker   *)
(* agent (core/base_agent.py, agents/data_fetch_agent.py) and the JSON     *)
(* form of a message (models/message_types.py).                            *)
(*                                                                         *)
(* The coordinator runs on one asyncio event loop: code between two        *)
(* suspension points runs without interleaving.  The only suspension       *)
(* points of the coordinator are asyncio.sleep(1) in                       *)
(* _wait_for_stage_completion and asyncio.sleep(status_update_interval) in *)
(* _monitoring_loop (BaseAgent.send_message only logs), so every handler,  *)
(* every public call, every run of an execution task from one sleep to the *)
(* next and every scan of the monitor is one action.                       *)
(*                                                                         *)
(* Python values.  A str is a sequence of tokens; the token "_" is the     *)
(* underscore and no other token contains one.  An Optional value is None  *)
(* (the empty sequence) or Some(v) (the one-element sequence).  A dict is  *)
(* a function; datetimes are readings of the clock `now`.                  *)
(***************************************************************************)
EXTENDS Integers, Sequences, FiniteSets, TLC

VARIABLES
    pipeline_config,           \* the PipelineConfig the coordinator was constructed with
    active_pipelines,          \* dict pipeline_id -> PipelineExecution
    completed_pipelines,       \* dict pipeline_id -> PipelineExecution
    total_pipelines_executed,
    successful_pipelines,
    failed_pipelines,
    tasks,                     \* pipeline_id -> the _execute_pipeline task of that pipeline
    uuids,                     \* number of uuid4() values drawn by start_pipeline
    now,                       \* datetime.now()
    last,                      \* what the most recent step returned, raised and sent
    strays,                    \* worker messages received out of turn so far
    agents,                    \* MessageBroker.agents: dict agent_type -> agent instance
    message_queues,            \* MessageBroker.message_queues: agent_type -> asyncio.Queue
    message_history,           \* MessageBroker.message_history
    pending_confirmations,     \* MessageBroker.pending_confirmations, its keys
    is_running,                \* MessageBroker.is_running
    stats,                     \* MessageBroker.stats, its three counters
    delivery,                  \* the _delivery_loop task: where it is and what it holds
    message_queue,             \* agent_type -> BaseAgent.message_queue of the workers
    sends,                     \* number of messages handed to send_message so far
    subscriptions,             \* MessageBroker.subscriptions: message type -> set of agent types
    cleanup,                   \* the _cleanup_loop task: where it is
    worker,                    \* a worker agent: its configuration and the message it processes
    wire,                      \* a message, its JSON text and what is read back from the text
    delivery2,                 \* the _delivery_loop task a second start() creates
    handoffs,                  \* (agent_type, message_id) -> number of receive_message calls
    extraction                 \* a call of _extract_pipeline_id: its argument and its result

\* the fields of the broker, its delivery task and the workers' queues it fills
broker == <<agents, message_queues, message_history, pending_confirmations, is_running,
            stats, delivery, message_queue, sends, subscriptions, cleanup, delivery2, handoffs>>

\* the fields of the coordinator and its tasks, but for `last`
coordinator == <<pipeline_config, active_pipelines, completed_pipelines,
                 total_pipelines_executed, successful_pipelines, failed_pipelines,
                 tasks, uuids, now, strays, extraction>>

vars == <<pipeline_config, active_pipelines, completed_pipelines, total_pipelines_executed,
          successful_pipelines, failed_pipelines, tasks, uuids, now, last,
          strays, broker, worker, wire, extraction>>

----------------------------------------------------------------------------
(* Bounds of the model *)

\* uuid4() is drawn at most this many times
MaxPipelines == 2
\* the clock stops here
MaxTime == 2
\* worker messages that reach an active pipeline out of turn (duplicates, a later
\* stage's reply before an earlier one's): at most this many in a run
MaxStray == 1


----------------------------------------------------------------------------
(* Python values *)

None == << >>
Some(v) == <<v>>
Get(o) == o[1]

Digit == <<"0", "1", "2", "3", "4", "5", "6", "7", "8", "9">>

RECURSIVE Str(_)
\* str(n) / f"{n:.0f}" of a natural number, as tokens
Str(n) == IF n < 10 THEN <<Digit[n + 1]>> ELSE Str(n \div 10) \o <<Digit[(n % 10) + 1]>>

\* d with d[k] = v  (d[k] = v in Python)
Put(d, k, v) == [x \in DOMAIN d \cup {k} |-> IF x = k THEN v ELSE d[x]]
\* d without k  (del d[k])
Del(d, k) == [x \in DOMAIN d \ {k} |-> d[x]]
EmptyDict == [x \in {} |-> x]

RECURSIVE IndexOf(_, _, _)
\* the first position >= i of token t in s, or Len(s) + 1
IndexOf(s, t, i) == IF i > Len(s) THEN i ELSE IF s[i] = t THEN i ELSE IndexOf(s, t, i + 1)

RECURSIVE LastIndexOf(_, _, _)
\* the last position <= i of token t in s, or 0
LastIndexOf(s, t, i) == IF i = 0 THEN 0 ELSE IF s[i] = t THEN i ELSE LastIndexOf(s, t, i - 1)

\* Faulty variant of the split: s.rsplit('_', 1)[0], the text before the last '_'
SplitLast(s) ==
    IF LastIndexOf(s, "_", Len(s)) = 0 THEN s ELSE SubSeq(s, 1, LastIndexOf(s, "_", Len(s)) - 1)

\* s.split('_')[0]
SplitFirst(s) == SubSeq(s, 1, IndexOf(s, "_", 1) - 1)

----------------------------------------------------------------------------
(* Enumerations *)

PENDING == "pending"
RUNNING == "running"
COMPLETED == "completed"
FAILED == "failed"
CANCELLED == "cancelled"
PipelineStatus == {PENDING, RUNNING, COMPLETED, FAILED, CANCELLED}

INIT == "INIT"
DATA_FETCH == "DATA_FETCH"
NORMALIZATION == "NORMALIZATION"
RAG_PROCESSING == "RAG_PROCESSING"
REPORT_GENERATION == "REPORT_GENERATION"
DASHBOARD_READY == "DASHBOARD_READY"
CLEANUP == "CLEANUP"
PipelineStage == {INIT, DATA_FETCH, NORMALIZATION, RAG_PROCESSING, REPORT_GENERATION,
                  DASHBOARD_READY, CLEANUP}

\* PipelineStage.value
StageValue(stage) ==
    CASE stage = INIT -> <<"initialization">>
      [] stage = DATA_FETCH -> <<"data", "_", "fetch">>
      [] stage = NORMALIZATION -> <<"normalization">>
      [] stage = RAG_PROCESSING -> <<"rag", "_", "processing">>
      [] stage = REPORT_GENERATION -> <<"report", "_", "generation">>
      [] stage = DASHBOARD_READY -> <<"dashboard", "_", "ready">>
      [] stage = CLEANUP -> <<"cleanup">>

\* the stages _execute_pipeline passes to _execute_stage, in the order of its calls
ExecutionOrder == <<DATA_FETCH, NORMALIZATION, RAG_PROCESSING, REPORT_GENERATION, DASHBOARD_READY>>

\* Faulty variant of the stage sequence: NORMALIZATION is left out
NextStageSkipping(stage) ==
    CASE stage = DATA_FETCH -> RAG_PROCESSING
      [] stage = NORMALIZATION -> RAG_PROCESSING
      [] stage = RAG_PROCESSING -> REPORT_GENERATION
      [] stage = REPORT_GENERATION -> DASHBOARD_READY

\* the stage _execute_pipeline runs after `stage`
NextStage(stage) ==
    CASE stage = DATA_FETCH -> NORMALIZATION
      [] stage = NORMALIZATION -> RAG_PROCESSING
      [] stage = RAG_PROCESSING -> REPORT_GENERATION
      [] stage = REPORT_GENERATION -> DASHBOARD_READY

----------------------------------------------------------------------------
(* Messages *)

COORDINATOR == "coordinator"
AGENT_DATA_FETCH == "data_fetch"
AGENT_NORMALIZATION == "normalization"
AGENT_RAG == "rag"
AGENT_REPORT == "report"
AGENT_DASHBOARD == "dashboard"

\* create_message: message_id and timestamp are not read by the coordinator
create_message(msg_type, sender, recipient, payload, correlation_id) ==
    [type |-> msg_type,
     metadata |-> [sender |-> sender, recipient |-> recipient,
                   correlation_id |-> correlation_id],
     payload |-> payload]

\* Python's `value or default`: the default replaces None and every empty container
Or(value, default) == IF DOMAIN value = {} THEN default ELSE value

create_fetch_data_message(sender, date_range, tables, filters, correlation_id) ==
    create_message("FETCH_DATA", sender, AGENT_DATA_FETCH,
                   [date_range |-> date_range,
                    tables |-> Or(tables, <<"returns", "warranties", "products">>),
                    filters |-> Or(filters, [store_locations |-> <<"all">>,
                                             product_categories |-> <<"all">>])],
                   correlation_id)

\* the n-th value of uuid4(): hexadecimal digits and hyphens, never an underscore
uuid4(n) == <<"u">> \o Str(n)

\* f"{pipeline_id}_{stage.value}"
CorrelationId(pipeline_id, stage) == pipeline_id \o <<"_">> \o StageValue(stage)

_extract_pipeline_id(correlation_id) ==
    IF correlation_id = None \/ Get(correlation_id) = << >>
    THEN None
    ELSE Some(SplitFirst(Get(correlation_id)))

----------------------------------------------------------------------------
(* The messages and arguments the environment hands to the coordinator *)

\* correlation ids of incoming messages: absent, empty, or the one the coordinator
\* put on FETCH_DATA for some uuid (drawn already or not)
CorrelationIds ==
    {None, Some(<< >>)} \cup {Some(CorrelationId(uuid4(n), DATA_FETCH)) : n \in 1..MaxPipelines}

DataPayloads == {[data |-> "d1"]}
FailurePayloads == {[error |-> <<"boom">>], EmptyDict}
CancelReasons == {<<"Cancelled", "by", "user">>}
DateRangeArgs == {None}
TablesArgs == {None}
FiltersArgs == {None}

Incoming(msg_type, sender, payloads) ==
    {create_message(msg_type, sender, COORDINATOR, pl, c) : pl \in payloads, c \in CorrelationIds}

\* what each worker may send to the coordinator
RawDataMessages == Incoming("RAW_DATA", AGENT_DATA_FETCH, DataPayloads)
CleanDataMessages == Incoming("CLEAN_DATA", AGENT_NORMALIZATION, DataPayloads)
InsightsMessages == Incoming("INSIGHTS", AGENT_RAG, DataPayloads)
ReportReadyMessages == Incoming("REPORT_READY", AGENT_REPORT, DataPayloads)
TaskFailedMessages == Incoming("TASK_FAILED", AGENT_DATA_FETCH, FailurePayloads)

----------------------------------------------------------------------------
(* PipelineExecution and the coordinator's state *)

\* PipelineConfig(...): the timeouts in clock units, the pipeline limit and the
\* default date range in days
PipelineConfig(data_fetch_timeout, normalization_timeout, rag_processing_timeout, report_generation_timeout, total_pipeline_timeout, max_concurrent_pipelines) ==
    [data_fetch_timeout |-> data_fetch_timeout,
     normalization_timeout |-> normalization_timeout,
     rag_processing_timeout |-> rag_processing_timeout,
     report_generation_timeout |-> report_generation_timeout,
     total_pipeline_timeout |-> total_pipeline_timeout,
     default_date_range_days |-> 90,
     max_concurrent_pipelines |-> max_concurrent_pipelines]

\* Faulty variant of the tracker start_pipeline builds: it is born RUNNING
NewPipelineRunning(pipeline_id, date_range, tables, filters) ==
    [pipeline_id |-> pipeline_id,
     status |-> RUNNING,
     current_stage |-> INIT,
     started_at |-> now,
     completed_at |-> None,
     error_message |-> None,
     date_range |-> date_range,
     tables |-> tables,
     filters |-> filters,
     stage_start_times |-> EmptyDict,
     stage_completion_times |-> EmptyDict,
     data_fetch_result |-> None,
     normalization_result |-> None,
     rag_result |-> None,
     report_result |-> None]

\* PipelineExecution(...) as start_pipeline builds it, after __post_init__
NewPipeline(pipeline_id, date_range, tables, filters) ==
    [pipeline_id |-> pipeline_id,
     status |-> PENDING,
     current_stage |-> INIT,
     started_at |-> now,
     completed_at |-> None,
     error_message |-> None,
     date_range |-> date_range,
     tables |-> tables,
     filters |-> filters,
     stage_start_times |-> EmptyDict,
     stage_completion_times |-> EmptyDict,
     data_fetch_result |-> None,
     normalization_result |-> None,
     rag_result |-> None,
     report_result |-> None]

\* the coordinator's fields, as one value the methods below transform
Self ==
    [active_pipelines |-> active_pipelines,
     completed_pipelines |-> completed_pipelines,
     total_pipelines_executed |-> total_pipelines_executed,
     successful_pipelines |-> successful_pipelines,
     failed_pipelines |-> failed_pipelines]

Store(self) ==
    /\ active_pipelines' = self.active_pipelines
    /\ completed_pipelines' = self.completed_pipelines
    /\ total_pipelines_executed' = self.total_pipelines_executed
    /\ successful_pipelines' = self.successful_pipelines
    /\ failed_pipelines' = self.failed_pipelines

\* the PipelineExecution object a local variable `pipeline` refers to, in whichever
\* dict holds it now
Object(self, pipeline_id) ==
    IF pipeline_id \in DOMAIN self.active_pipelines
    THEN self.active_pipelines[pipeline_id]
    ELSE self.completed_pipelines[pipeline_id]

\* what a step returned (None or Some(value)), the exception it raised and the
\* messages it passed to send_message
NoException == "none"
Outcome(ret, raised, sent) == [ret |-> ret, raised |-> raised, sent |-> sent]
Nothing == Outcome(None, NoException, << >>)

----------------------------------------------------------------------------
(* Finalization *)

\* `if pipeline_id not in self.active_pipelines: return` and `if pipeline_id in ...`
IsActive(self, pipeline_id) == pipeline_id \in DOMAIN self.active_pipelines

\* Faulty variants of _complete_pipeline, which the properties at the end of the
\* module must tell from the method: one forgets `del self.active_pipelines[...]`,
\* the other lacks the early return and finalizes a completed pipeline once more
_complete_pipeline_keeps(self, pipeline_id, success, error) ==
    IF ~IsActive(self, pipeline_id)
    THEN self
    ELSE LET pipeline ==
                 [self.active_pipelines[pipeline_id] EXCEPT
                     !.completed_at = Some(now),
                     !.status = IF success THEN COMPLETED ELSE FAILED,
                     !.error_message = IF success THEN @ ELSE error]
         IN  [self EXCEPT
                 !.successful_pipelines = IF success THEN @ + 1 ELSE @,
                 !.failed_pipelines = IF success THEN @ ELSE @ + 1,
                 !.completed_pipelines = Put(@, pipeline_id, pipeline),
                 !.total_pipelines_executed = @ + 1]

_complete_pipeline_again(self, pipeline_id, success, error) ==
    IF pipeline_id \notin DOMAIN self.active_pipelines \cup DOMAIN self.completed_pipelines
    THEN self
    ELSE LET pipeline ==
                 [Object(self, pipeline_id) EXCEPT
                     !.completed_at = Some(now),
                     !.status = IF success THEN COMPLETED ELSE FAILED,
                     !.error_message = IF success THEN @ ELSE error]
         IN  [self EXCEPT
                 !.successful_pipelines = IF success THEN @ + 1 ELSE @,
                 !.failed_pipelines = IF success THEN @ ELSE @ + 1,
                 !.completed_pipelines = Put(@, pipeline_id, pipeline),
                 !.active_pipelines = Del(@, pipeline_id),
                 !.total_pipelines_executed = @ + 1]

\* Faulty variant of _complete_pipeline: a failure is counted as a success
_complete_pipeline_miscounted(self, pipeline_id, success, error) ==
    IF ~IsActive(self, pipeline_id)
    THEN self
    ELSE LET pipeline ==
                 [self.active_pipelines[pipeline_id] EXCEPT
                     !.completed_at = Some(now),
                     !.status = IF success THEN COMPLETED ELSE FAILED,
                     !.error_message = IF success THEN @ ELSE error]
         IN  [self EXCEPT
                 !.successful_pipelines = @ + 1,
                 !.completed_pipelines = Put(@, pipeline_id, pipeline),
                 !.active_pipelines = Del(@, pipeline_id),
                 !.total_pipelines_executed = @ + 1]

\* _complete_pipeline(pipeline_id, success, error); average_execution_time, a float
\* nothing reads, is left out
_complete_pipeline(self, pipeline_id, success, error) ==
    IF ~IsActive(self, pipeline_id)
    THEN self
    ELSE LET pipeline ==
                 [self.active_pipelines[pipeline_id] EXCEPT
                     !.completed_at = Some(now),
                     !.status = IF success THEN COMPLETED ELSE FAILED,
                     !.error_message = IF success THEN @ ELSE error]
         IN  [self EXCEPT
                 !.successful_pipelines = IF success THEN @ + 1 ELSE @,
                 !.failed_pipelines = IF success THEN @ ELSE @ + 1,
                 !.completed_pipelines = Put(@, pipeline_id, pipeline),
                 !.active_pipelines = Del(@, pipeline_id),
                 !.total_pipelines_executed = @ + 1]

\* Faulty variant of cancel_pipeline: it cancels a completed pipeline as well
cancel_pipeline_anywhere(self, pipeline_id, reason) ==
    IF pipeline_id \in DOMAIN self.active_pipelines \cup DOMAIN self.completed_pipelines
    THEN LET pipeline ==
                 [Object(self, pipeline_id) EXCEPT
                     !.status = CANCELLED,
                     !.error_message = Some(reason),
                     !.completed_at = Some(now)]
         IN  [self EXCEPT
                 !.completed_pipelines = Put(@, pipeline_id, pipeline),
                 !.active_pipelines = Del(@, pipeline_id)]
    ELSE self

\* Faulty variant of cancel_pipeline: the reason is not stored
cancel_pipeline_silent(self, pipeline_id, reason) ==
    IF IsActive(self, pipeline_id)
    THEN LET pipeline ==
                 [self.active_pipelines[pipeline_id] EXCEPT
                     !.status = CANCELLED,
                     !.completed_at = Some(now)]
         IN  [self EXCEPT
                 !.completed_pipelines = Put(@, pipeline_id, pipeline),
                 !.active_pipelines = Del(@, pipeline_id)]
    ELSE self

\* cancel_pipeline(pipeline_id, reason)
cancel_pipeline(self, pipeline_id, reason) ==
    IF IsActive(self, pipeline_id)
    THEN LET pipeline ==
                 [self.active_pipelines[pipeline_id] EXCEPT
                     !.status = CANCELLED,
                     !.error_message = Some(reason),
                     !.completed_at = Some(now)]
         IN  [self EXCEPT
                 !.completed_pipelines = Put(@, pipeline_id, pipeline),
                 !.active_pipelines = Del(@, pipeline_id)]
    ELSE self

----------------------------------------------------------------------------
(* The execution task of a pipeline: _execute_pipeline *)

\* where a task stands: created and not yet run, asleep in the poll loop of
\* _wait_for_stage_completion(stage) entered at start_time, or finished
Scheduled == [pc |-> "scheduled", stage |-> INIT, start_time |-> None]
Waiting(stage, start_time) == [pc |-> "waiting", stage |-> stage, start_time |-> Some(start_time)]
Finished == [pc |-> "finished", stage |-> INIT, start_time |-> None]

_get_stage_timeout(stage) ==
    CASE stage = DATA_FETCH -> pipeline_config.data_fetch_timeout
      [] stage = NORMALIZATION -> pipeline_config.normalization_timeout
      [] stage = RAG_PROCESSING -> pipeline_config.rag_processing_timeout
      [] stage = REPORT_GENERATION -> pipeline_config.report_generation_timeout
      [] stage = DASHBOARD_READY -> 30  \* Quick stage
      [] OTHER -> 60

\* Faulty variant of the TimeoutError text: the stage is left out
TimeoutErrorTextBare(stage) ==
    <<"Stage", "timed", "out", "after">> \o Str(_get_stage_timeout(stage)) \o <<"seconds">>

\* str(e) of the exceptions _execute_pipeline catches
TimeoutErrorText(stage) ==
    <<"Stage">> \o StageValue(stage) \o <<"timed", "out", "after">>
        \o Str(_get_stage_timeout(stage)) \o <<"seconds">>
RuntimeErrorText(stage) == <<"Pipeline", "failed", "during", "stage">> \o StageValue(stage)
KeyErrorText(pipeline_id) == <<"'">> \o pipeline_id \o <<"'">>

\* _execute_stage past its lookup of the pipeline: the stage is entered (the
\* FETCH_DATA message of DATA_FETCH is built by FetchMessage)
_execute_stage(self, pipeline_id, stage) ==
    [self EXCEPT !.active_pipelines[pipeline_id] =
        [@ EXCEPT !.current_stage = stage,
                  !.stage_start_times = Put(@, stage, now)]]

FetchMessage(pipeline) ==
    create_fetch_data_message(COORDINATOR, pipeline.date_range, pipeline.tables,
                              pipeline.filters,
                              Some(CorrelationId(pipeline.pipeline_id, DATA_FETCH)))

\* what _execute_stage passes to send_message on entering `stage`: the FETCH_DATA
\* message for DATA_FETCH, nothing in the branches that `pass`
StageMessages(pipeline, stage) ==
    IF stage = DATA_FETCH THEN <<FetchMessage(pipeline)>> ELSE << >>

\* the messages sent by the _execute_stage calls that took the pipeline's record
\* from `before` to `after`, in the order of the calls
RECURSIVE SentEntering(_, _, _)
SentEntering(before, after, stages) ==
    IF stages = << >>
    THEN << >>
    ELSE (IF Head(stages) \in DOMAIN after.stage_start_times
                                \ DOMAIN before.stage_start_times
          THEN StageMessages(after, Head(stages))
          ELSE << >>) \o SentEntering(before, after, Tail(stages))

\* Faulty variant of the except branch: the exception is logged and nothing else
FailureSwallowed(self, pipeline_id, text) == [self |-> self, task |-> Finished]

\* Faulty variant of the except branch: it also writes str(e) through the task's own
\* reference to the pipeline object
FailureOnReference(self, pipeline_id, text) ==
    LET done == _complete_pipeline(self, pipeline_id, FALSE, Some(text)) IN
    [self |-> [done EXCEPT !.completed_pipelines[pipeline_id].error_message = Some(text)],
     task |-> Finished]

\* `except Exception as e: await self._complete_pipeline(pipeline_id, success=False, error=str(e))`
Failure(self, pipeline_id, text) ==
    [self |-> _complete_pipeline(self, pipeline_id, FALSE, Some(text)), task |-> Finished]

RECURSIVE Poll(_, _, _, _)
RECURSIVE Advance(_, _, _)

\* _wait_for_stage_completion from the test of its while loop to the next sleep
Poll(self, pipeline_id, stage, start_time) ==
    LET pipeline == Object(self, pipeline_id) IN
    IF ~(now - start_time < _get_stage_timeout(stage))
    THEN Failure(self, pipeline_id, TimeoutErrorText(stage))
    ELSE IF stage \in DOMAIN pipeline.stage_completion_times
    THEN Advance(self, pipeline_id, stage)
    ELSE IF pipeline.status = FAILED
    THEN Failure(self, pipeline_id, RuntimeErrorText(stage))
    ELSE [self |-> self, task |-> Waiting(stage, start_time)]

\* _execute_pipeline after the wait for `stage` returned: the next _execute_stage
\* and either the next wait or, after DASHBOARD_READY, the successful completion
Advance(self, pipeline_id, stage) ==
    IF ~(pipeline_id \in DOMAIN self.active_pipelines)
    THEN Failure(self, pipeline_id, KeyErrorText(pipeline_id))
    ELSE LET entered == _execute_stage(self, pipeline_id, NextStage(stage)) IN
         IF NextStage(stage) = DASHBOARD_READY
         THEN [self |-> _complete_pipeline(entered, pipeline_id, TRUE, None),
               task |-> Finished]
         ELSE Poll(entered, pipeline_id, NextStage(stage), now)

\* _execute_pipeline from its first line to its first sleep, for an active pipeline
Begin(self, pipeline_id) ==
    LET running == [self EXCEPT !.active_pipelines[pipeline_id].status = RUNNING] IN
    Poll(_execute_stage(running, pipeline_id, DATA_FETCH), pipeline_id, DATA_FETCH, now)

----------------------------------------------------------------------------
(* The message broker as constructed: `message_broker = MessageBroker()` *)

\* the agent types messages are addressed to
Recipients == {COORDINATOR, AGENT_DATA_FETCH}

\* the _delivery_loop task: not created, or at `pc` holding the messages get_messages
\* returned for `agent_type`, to be received by the instance `agent`
NoTask == [pc |-> "none", agent_type |-> None, agent |-> None, messages |-> << >>]

\* DataFetchAgent(config) before it takes a message: no active task, nothing sent.
\* `config` and `message` are set when a message is processed; `attempt`, `calls` and
\* `slept` are the loop variable of _execute_with_retry, the number of times the
\* handler was invoked and the delays awaited; `sent` holds the messages given to
\* send_message, the first `routed` of which have reached their recipient;
\* `task_status` is TaskStatus.status, `result` and `raised` what
\* _execute_with_retry returned or raised
DataFetchAgent ==
    [pc |-> "idle", config |-> None, message |-> None, attempt |-> 0, calls |-> 0,
     slept |-> << >>, sent |-> << >>, routed |-> 0, task_status |-> None,
     result |-> None, raised |-> NoException]

\* no message has been serialized yet
Unsent == [message |-> None, json |-> None, parsed |-> None]

\* MessageBroker.__init__; a queue the defaultdict has not created yet is empty
MessageBroker ==
    /\ agents = EmptyDict
    /\ message_queues = [r \in Recipients |-> << >>]
    /\ message_history = << >>
    /\ pending_confirmations = {}
    /\ is_running = FALSE
    /\ stats = [messages_sent |-> 0, messages_delivered |-> 0, messages_failed |-> 0]
    /\ delivery = NoTask
    /\ message_queue = [r \in Recipients |-> << >>]
    /\ sends = 0
    /\ subscriptions = EmptyDict
    /\ cleanup = "none"
    /\ delivery2 = NoTask
    /\ handoffs = EmptyDict

\* no direct call of _extract_pipeline_id was made
NotCalled == [correlation_id |-> None, called |-> FALSE, ret |-> None]

----------------------------------------------------------------------------
(* Initial state: the coordinator constructed and started.  __init__ leaves both *)
(* dicts empty and the counters 0; _on_start creates the monitoring task.        *)

Started ==
    /\ active_pipelines = EmptyDict
    /\ completed_pipelines = EmptyDict
    /\ total_pipelines_executed = 0
    /\ successful_pipelines = 0
    /\ failed_pipelines = 0
    /\ tasks = EmptyDict
    /\ uuids = 0
    /\ now = 0
    /\ last = Nothing
    /\ strays = 0
    /\ MessageBroker
    /\ worker = DataFetchAgent
    /\ wire = Unsent
    /\ extraction = NotCalled

pipelines == <<active_pipelines, completed_pipelines>>
metrics == <<total_pipelines_executed, successful_pipelines, failed_pipelines>>

----------------------------------------------------------------------------
(* Public calls *)

\* Faulty variants of the capacity test: off by one, and missing
AtCapacityStrict(self) == Cardinality(DOMAIN self.active_pipelines) > pipeline_config.max_concurrent_pipelines
AtCapacityNever(self) == FALSE

\* `len(self.active_pipelines) >= self.pipeline_config.max_concurrent_pipelines`
AtCapacity(self) == Cardinality(DOMAIN self.active_pipelines) >= pipeline_config.max_concurrent_pipelines

DefaultDateRange == [start |-> 0 - pipeline_config.default_date_range_days, end |-> 0]
DefaultTables == <<"returns", "warranties", "products">>
DefaultFilters == [store_locations |-> <<"all">>, product_categories |-> <<"all">>]

\* start_pipeline(date_range, tables, filters); dates count days from date.today()
start_pipeline(date_range, tables, filters) ==
    IF AtCapacity(Self)
    THEN /\ last' = Outcome(None, "RuntimeError", << >>)
         /\ UNCHANGED <<pipelines, metrics, tasks, uuids, now>>
    ELSE /\ LET pipeline_id == uuid4(uuids + 1)
                pipeline ==
                    NewPipeline(pipeline_id,
                                IF date_range = None THEN DefaultDateRange ELSE Get(date_range),
                                IF tables = None THEN DefaultTables ELSE Get(tables),
                                IF filters = None THEN DefaultFilters ELSE Get(filters))
            IN  /\ uuids' = uuids + 1
                /\ active_pipelines' = Put(active_pipelines, pipeline_id, pipeline)
                /\ tasks' = Put(tasks, pipeline_id, Scheduled)
                /\ last' = Outcome(Some(pipeline_id), NoException, << >>)
         /\ UNCHANGED <<completed_pipelines, metrics, now>>

\* await coordinator.cancel_pipeline(pipeline_id, reason)
CancelPipeline(pipeline_id, reason) ==
    /\ Store(cancel_pipeline(Self, pipeline_id, reason))
    /\ last' = Nothing
    /\ UNCHANGED <<tasks, uuids, now>>

\* Faulty variant of the shutdown loop: it stops after the first pipeline
CancelFirst(self, ids) ==
    IF ids = {} THEN self
    ELSE cancel_pipeline(self, CHOOSE x \in ids : TRUE, <<"System", "shutdown">>)

RECURSIVE CancelAll(_, _)
\* `for pipeline_id in list(self.active_pipelines.keys()): await self.cancel_pipeline(...)`
CancelAll(self, ids) ==
    IF ids = {} THEN self
    ELSE LET pipeline_id == CHOOSE x \in ids : TRUE IN
         CancelAll(cancel_pipeline(self, pipeline_id, <<"System", "shutdown">>),
                   ids \ {pipeline_id})

_on_stop ==
    /\ Store(CancelAll(Self, DOMAIN active_pipelines))
    /\ last' = Nothing
    /\ UNCHANGED <<tasks, uuids, now>>

----------------------------------------------------------------------------
(* Message handlers *)

\* `not pipeline_id or pipeline_id not in self.active_pipelines`
Dropped(self, pipeline_id) ==
    \/ pipeline_id = None
    \/ Get(pipeline_id) = << >>
    \/ Get(pipeline_id) \notin DOMAIN self.active_pipelines

\* Faulty variant of the early return: the handler raises instead
IgnoreLoudly ==
    /\ last' = Outcome(None, "KeyError", << >>)
    /\ UNCHANGED <<pipelines, metrics, tasks, uuids, now>>

\* a data handler returns None without touching anything
Ignore ==
    /\ last' = Nothing
    /\ UNCHANGED <<pipelines, metrics, tasks, uuids, now>>

\* Faulty variant of a handler's tail: the message goes out, the pipeline object is
\* left as it was
ForwardUnsaved(pipeline, response) ==
    /\ last' = Outcome(Some(response), NoException, <<response>>)
    /\ UNCHANGED <<pipelines, metrics, tasks, uuids, now>>

\* Faulty variant of a handler's tail: the completion times recorded for the
\* pipeline are written to every active pipeline
ForwardToAll(pipeline, response) ==
    /\ active_pipelines' =
           [q \in DOMAIN active_pipelines |->
               IF q = pipeline.pipeline_id THEN pipeline
               ELSE [active_pipelines[q] EXCEPT
                        !.stage_completion_times = pipeline.stage_completion_times]]
    /\ last' = Outcome(Some(response), NoException, <<response>>)
    /\ UNCHANGED <<completed_pipelines, metrics, tasks, uuids, now>>

\* a data handler sends `response` and returns it, the pipeline object updated before
Forward(pipeline, response) ==
    /\ active_pipelines' = [active_pipelines EXCEPT ![pipeline.pipeline_id] = pipeline]
    /\ last' = Outcome(Some(response), NoException, <<response>>)
    /\ UNCHANGED <<completed_pipelines, metrics, tasks, uuids, now>>

handle_raw_data(message) ==
    LET pipeline_id == _extract_pipeline_id(message.metadata.correlation_id) IN
    IF Dropped(Self, pipeline_id)
    THEN Ignore
    ELSE Forward([active_pipelines[Get(pipeline_id)] EXCEPT
                     !.data_fetch_result = Some(message.payload),
                     !.stage_completion_times = Put(@, DATA_FETCH, now)],
                 create_message("NORMALIZE_DATA", COORDINATOR, AGENT_NORMALIZATION,
                                message.payload, message.metadata.correlation_id))

handle_clean_data(message) ==
    LET pipeline_id == _extract_pipeline_id(message.metadata.correlation_id) IN
    IF Dropped(Self, pipeline_id)
    THEN Ignore
    ELSE Forward([active_pipelines[Get(pipeline_id)] EXCEPT
                     !.normalization_result = Some(message.payload),
                     !.stage_completion_times = Put(@, NORMALIZATION, now)],
                 create_message("GENERATE_INSIGHTS", COORDINATOR, AGENT_RAG,
                                message.payload, message.metadata.correlation_id))

\* Faulty variant of handle_insights: the stage is recorded complete, the payload
\* is not kept
handle_insights_unkept(message) ==
    LET pipeline_id == _extract_pipeline_id(message.metadata.correlation_id) IN
    IF Dropped(Self, pipeline_id)
    THEN Ignore
    ELSE Forward([active_pipelines[Get(pipeline_id)] EXCEPT
                     !.stage_completion_times = Put(@, RAG_PROCESSING, now)],
                 create_message("CREATE_REPORT", COORDINATOR, AGENT_REPORT,
                                message.payload, message.metadata.correlation_id))

handle_insights(message) ==
    LET pipeline_id == _extract_pipeline_id(message.metadata.correlation_id) IN
    IF Dropped(Self, pipeline_id)
    THEN Ignore
    ELSE Forward([active_pipelines[Get(pipeline_id)] EXCEPT
                     !.rag_result = Some(message.payload),
                     !.stage_completion_times = Put(@, RAG_PROCESSING, now)],
                 create_message("CREATE_REPORT", COORDINATOR, AGENT_REPORT,
                                message.payload, message.metadata.correlation_id))

\* Faulty variant of handle_report_ready: DASHBOARD_READY is stamped with the time
\* the pipeline started at
handle_report_ready_early(message) ==
    LET pipeline_id == _extract_pipeline_id(message.metadata.correlation_id) IN
    IF Dropped(Self, pipeline_id)
    THEN Ignore
    ELSE Forward([active_pipelines[Get(pipeline_id)] EXCEPT
                     !.report_result = Some(message.payload),
                     !.stage_completion_times =
                         Put(Put(@, REPORT_GENERATION, now), DASHBOARD_READY,
                             active_pipelines[Get(pipeline_id)].started_at)],
                 create_message("DASHBOARD_READY", COORDINATOR, AGENT_DASHBOARD,
                                message.payload, message.metadata.correlation_id))

\* Faulty variant of handle_report_ready: only REPORT_GENERATION is recorded complete
handle_report_ready_alone(message) ==
    LET pipeline_id == _extract_pipeline_id(message.metadata.correlation_id) IN
    IF Dropped(Self, pipeline_id)
    THEN Ignore
    ELSE Forward([active_pipelines[Get(pipeline_id)] EXCEPT
                     !.report_result = Some(message.payload),
                     !.stage_completion_times = Put(@, REPORT_GENERATION, now)],
                 create_message("DASHBOARD_READY", COORDINATOR, AGENT_DASHBOARD,
                                message.payload, message.metadata.correlation_id))

handle_report_ready(message) ==
    LET pipeline_id == _extract_pipeline_id(message.metadata.correlation_id) IN
    IF Dropped(Self, pipeline_id)
    THEN Ignore
    ELSE Forward([active_pipelines[Get(pipeline_id)] EXCEPT
                     !.report_result = Some(message.payload),
                     !.stage_completion_times =
                         Put(Put(@, REPORT_GENERATION, now), DASHBOARD_READY, now)],
                 create_message("DASHBOARD_READY", COORDINATOR, AGENT_DASHBOARD,
                                message.payload, message.metadata.correlation_id))

\* Faulty variant of the payload lookup: the default whatever the payload holds
ErrorOfUnknown(payload) == <<"Unknown", "error">>

\* message.payload.get('error', 'Unknown error')
ErrorOf(payload) ==
    IF "error" \in DOMAIN payload THEN payload.error ELSE <<"Unknown", "error">>

handle_task_failed(message) ==
    LET pipeline_id == _extract_pipeline_id(message.metadata.correlation_id) IN
    /\ IF Dropped(Self, pipeline_id)
       THEN UNCHANGED <<pipelines, metrics>>
       ELSE Store(_complete_pipeline(Self, Get(pipeline_id), FALSE,
                                     Some(ErrorOf(message.payload))))
    /\ last' = Nothing
    /\ UNCHANGED <<tasks, uuids, now>>

----------------------------------------------------------------------------
(* The event loop runs a task *)

\* the task asyncio.create_task(self._execute_pipeline(pipeline_id)) runs for the
\* first time, up to its first sleep: with the pipeline gone the lookup before the
\* try raises KeyError and the task ends
ExecuteStart(pipeline_id) ==
    /\ pipeline_id \in DOMAIN tasks
    /\ tasks[pipeline_id].pc = "scheduled"
    /\ IF ~(pipeline_id \in DOMAIN active_pipelines)
       THEN /\ tasks' = [tasks EXCEPT ![pipeline_id] = Finished]
            /\ last' = Outcome(None, "KeyError", << >>)
            /\ UNCHANGED <<pipelines, metrics>>
       ELSE LET run == Begin(Self, pipeline_id) IN
            /\ Store(run.self)
            /\ tasks' = [tasks EXCEPT ![pipeline_id] = run.task]
            /\ last' = Outcome(None, NoException,
                               SentEntering(active_pipelines[pipeline_id],
                                            Object(run.self, pipeline_id), ExecutionOrder))
    /\ UNCHANGED <<uuids, now>>

\* asyncio.sleep(1) of the poll loop returns and the task runs to its next sleep
\* or to its end
ExecuteWake(pipeline_id) ==
    /\ pipeline_id \in DOMAIN tasks
    /\ tasks[pipeline_id].pc = "waiting"
    /\ LET run == Poll(Self, pipeline_id, tasks[pipeline_id].stage,
                       Get(tasks[pipeline_id].start_time)) IN
       /\ Store(run.self)
       /\ tasks' = [tasks EXCEPT ![pipeline_id] = run.task]
       /\ last' = Outcome(None, NoException,
                          SentEntering(Object(Self, pipeline_id),
                                       Object(run.self, pipeline_id), ExecutionOrder))
    /\ UNCHANGED <<uuids, now>>

\* Faulty variant of the monitor's test: one clock unit late
StuckLate(pipeline) == now - pipeline.started_at > pipeline_config.total_pipeline_timeout + 1

\* `execution_time > self.pipeline_config.total_pipeline_timeout`
Stuck(pipeline) == now - pipeline.started_at > pipeline_config.total_pipeline_timeout

\* f"Pipeline timeout after {execution_time:.0f} seconds"
PipelineTimeoutText(execution_time) ==
    <<"Pipeline", "timeout", "after">> \o Str(execution_time) \o <<"seconds">>

RECURSIVE Scan(_, _)
\* the for loop of _monitoring_loop over list(self.active_pipelines.items())
Scan(self, ids) ==
    IF ids = {} THEN self
    ELSE LET pipeline_id == CHOOSE x \in ids : TRUE
             pipeline == Object(self, pipeline_id)
         IN  Scan(IF Stuck(pipeline)
                  THEN _complete_pipeline(self, pipeline_id, FALSE,
                           Some(PipelineTimeoutText(now - pipeline.started_at)))
                  ELSE self,
                  ids \ {pipeline_id})

\* asyncio.sleep(status_update_interval) of the monitoring loop returns: one scan
MonitorTick ==
    /\ Store(Scan(Self, DOMAIN active_pipelines))
    /\ last' = Nothing
    /\ UNCHANGED <<tasks, uuids, now>>

----------------------------------------------------------------------------
(* The environment: callers, workers and the clock *)

PipelineIds == {uuid4(n) : n \in 1..MaxPipelines}

\* the stage whose completion a worker's reply reports
PreviousStage(stage) ==
    CASE stage = NORMALIZATION -> DATA_FETCH
      [] stage = RAG_PROCESSING -> NORMALIZATION
      [] stage = REPORT_GENERATION -> RAG_PROCESSING

\* a worker answers each request once: the reply that completes `stage` is due when
\* the request was sent (FETCH_DATA on entering DATA_FETCH, the others by the handler
\* that completed the stage before) and no reply was received yet
InTurn(pipeline, stage) ==
    /\ stage \notin DOMAIN pipeline.stage_completion_times
    /\ IF stage = DATA_FETCH
       THEN DATA_FETCH \in DOMAIN pipeline.stage_start_times
       ELSE PreviousStage(stage) \in DOMAIN pipeline.stage_completion_times

\* the message reaches an active pipeline out of turn
Stray(message, stage) ==
    LET c == message.metadata.correlation_id IN
    /\ c # None
    /\ SplitFirst(Get(c)) \in DOMAIN active_pipelines
    /\ ~InTurn(active_pipelines[SplitFirst(Get(c))], stage)

\* the coordinator receives a worker's data message, one of at most `budget` strays
Receive(message, stage, budget) ==
    /\ IF Stray(message, stage)
       THEN strays < budget /\ strays' = strays + 1
       ELSE UNCHANGED strays
    /\ UNCHANGED <<pipeline_config, broker, worker, wire, extraction>>

\* what no call and no task of the coordinator changes
environment == <<pipeline_config, strays, broker, worker, wire, extraction>>

\* time passes
Tick ==
    /\ now < MaxTime
    /\ now' = now + 1
    /\ last' = Nothing
    /\ UNCHANGED <<pipelines, metrics, tasks, uuids, environment>>

\* the call will be refused, whatever start_pipeline makes of it
Full == Cardinality(DOMAIN active_pipelines) >= pipeline_config.max_concurrent_pipelines

\* start_pipeline is called, for the first pipeline or to be refused
StartOne ==
    /\ uuids = 0 \/ (uuids < MaxPipelines /\ Full)
    /\ \E d \in DateRangeArgs, t \in TablesArgs, f \in FiltersArgs : start_pipeline(d, t, f)
    /\ UNCHANGED environment

\* start_pipeline is called while uuids remain
Start ==
    /\ uuids < MaxPipelines
    /\ \E d \in DateRangeArgs, t \in TablesArgs, f \in FiltersArgs : start_pipeline(d, t, f)
    /\ UNCHANGED environment

Cancel ==
    \E p \in PipelineIds, r \in CancelReasons :
        CancelPipeline(p, r) /\ UNCHANGED environment

Stop == _on_stop /\ UNCHANGED environment

\* the workers' messages, at most `budget` of them out of turn
RawData(budget) ==
    \E m \in RawDataMessages :
        handle_raw_data(m) /\ Receive(m, DATA_FETCH, budget)

CleanData(budget) ==
    \E m \in CleanDataMessages :
        handle_clean_data(m) /\ Receive(m, NORMALIZATION, budget)

Insights(budget) ==
    \E m \in InsightsMessages :
        handle_insights(m) /\ Receive(m, RAG_PROCESSING, budget)

ReportReady(budget) ==
    \E m \in ReportReadyMessages :
        handle_report_ready(m) /\ Receive(m, REPORT_GENERATION, budget)

TaskFailed ==
    \E m \in TaskFailedMessages :
        handle_task_failed(m) /\ UNCHANGED environment

\* the event loop runs a task that is ready
Execute == \E p \in PipelineIds : ExecuteStart(p) /\ UNCHANGED environment
Wake == \E p \in PipelineIds : ExecuteWake(p) /\ UNCHANGED environment
Monitor == MonitorTick /\ UNCHANGED environment

(* One pipeline under the clock, with timeouts short enough to elapse: after the  *)
(* first pipeline, start_pipeline is called only when the coordinator is full.    *)
Init ==
    /\ pipeline_config = PipelineConfig(2, 1, 2, 1, 1, 1)
    /\ Started

Next ==
    \/ StartOne
    \/ Cancel
    \/ Stop
    \/ RawData(MaxStray)
    \/ CleanData(MaxStray)
    \/ Insights(MaxStray)
    \/ ReportReady(MaxStray)
    \/ TaskFailed
    \/ Execute
    \/ Wake
    \/ Monitor
    \/ Tick

Spec == Init /\ [][Next]_vars

(* Several pipelines, one or two at a time, while the clock stands still and every *)
(* worker message comes in turn.                                                   *)
InitMany ==
    /\ pipeline_config \in {PipelineConfig(2, 1, 2, 1, 1, 1), PipelineConfig(2, 1, 2, 1, 1, 2)}
    /\ Started

NextMany ==
    \/ Start
    \/ Cancel
    \/ Stop
    \/ RawData(0)
    \/ CleanData(0)
    \/ Insights(0)
    \/ ReportReady(0)
    \/ TaskFailed
    \/ Execute
    \/ Wake
    \/ Monitor

SpecMany == InitMany /\ [][NextMany]_vars

(* One pipeline started at time 0, every worker message in turn, with timeouts that  *)
(* fit under the clock's bound.  The event loop runs a created task before the clock *)
(* moves, every sleeping task is resumed in the end and time goes on: the monitoring *)
(* loop and the callers may do anything or nothing.                                  *)
InitLive ==
    /\ pipeline_config = PipelineConfig(2, 1, 1, 1, 1, 1)
    /\ Started

StartNow == now = 0 /\ StartOne

TickLive ==
    /\ \A p \in DOMAIN tasks : tasks[p].pc # "scheduled"
    /\ Tick

NextLive ==
    \/ StartNow
    \/ Cancel
    \/ Stop
    \/ RawData(0)
    \/ CleanData(0)
    \/ Insights(0)
    \/ ReportReady(0)
    \/ TaskFailed
    \/ Execute
    \/ Wake
    \/ Monitor
    \/ TickLive

SpecLive ==
    /\ InitLive
    /\ [][NextLive]_vars
    /\ WF_vars(Execute)
    /\ WF_vars(Wake)
    /\ WF_vars(TickLive)

----------------------------------------------------------------------------
(* The message broker (multi_agent/core/message_broker.py).  It runs on the     *)
(* same kind of event loop: send_message, register_agent, unregister_agent,     *)
(* start and stop do not suspend (a put on an unbounded asyncio.Queue returns   *)
(* at once); get_messages suspends only while the queue is empty; the delivery  *)
(* loop can be suspended between two messages of a batch, in the worker's       *)
(* receive_message.  The cleanup loop acts after 1000 messages or 5 minutes,    *)
(* beyond the bounds here.                                                       *)

\* send_message is called at most this many times
MaxSends == 3

\* what register_agent is given: a BaseAgent, which has receive_message, or an
\* object without it; or an agent whose receive_message raises an Exception
BaseAgent == "BaseAgent"
Bare == "object"
AgentInstances == {BaseAgent, Bare}
Failing == "failing"

\* hasattr(agent, 'receive_message')
HasReceive(agent) == agent \in {BaseAgent, Failing}

\* a message_id: a str, or a value that cannot be a dict key (a list)
MessageId(n, type) == [n |-> n, type |-> type]
Hashable(message_id) == message_id.type = "str"

MessageMetadata(message_id, recipient) ==
    [message_id |-> message_id, sender |-> AGENT_REPORT, recipient |-> recipient]

\* BaseMessage(type, metadata, payload); the dataclass checks no field
BaseMessage(type, metadata, payload) == [type |-> type, metadata |-> metadata, payload |-> payload]

\* the shapes of message a caller may hand to send_message
Forms == {"well-formed", "no type", "no metadata", "empty payload", "list id"}

\* the n-th message handed to send_message, of the given shape
Message(n, recipient, form) ==
    BaseMessage(IF form = "no type" THEN None ELSE Some("HEARTBEAT"),
                IF form = "no metadata" THEN None
                ELSE Some(MessageMetadata(MessageId(n, IF form = "list id" THEN "list" ELSE "str"),
                                          recipient)),
                IF form = "empty payload" THEN EmptyDict ELSE [status |-> <<"running">>])

\* Faulty variant of _validate_message: a message for an unregistered recipient is
\* turned down
_validate_message_registered(message) ==
    /\ message.type # None
    /\ message.metadata # None
    /\ DOMAIN message.payload # {}
    /\ Get(message.metadata).recipient \in DOMAIN agents

\* `not message.type or not message.metadata or not message.payload` -> False; an
\* unregistered recipient is only warned about
_validate_message(message) ==
    /\ message.type # None
    /\ message.metadata # None
    /\ DOMAIN message.payload # {}

\* the fields of the broker that send_message reads and writes, and what it returns
SelfBroker ==
    [message_queues |-> message_queues,
     message_history |-> message_history,
     pending_confirmations |-> pending_confirmations,
     stats |-> stats,
     ret |-> None]

StoreBroker(self) ==
    /\ message_queues' = self.message_queues
    /\ message_history' = self.message_history
    /\ pending_confirmations' = self.pending_confirmations
    /\ stats' = self.stats

\* send_message on the broker `self`, which has no suspension point.  A message_id
\* that cannot be a key raises at `self.pending_confirmations[...] = message`,
\* after the put, and the except branch counts the failure
SendTo(self, message) ==
    IF ~_validate_message(message)
    THEN [self EXCEPT !.ret = Some(FALSE)]
    ELSE LET recipient == Get(message.metadata).recipient
             message_id == Get(message.metadata).message_id
             queued == [self EXCEPT
                           !.message_history = Append(@, message),
                           !.message_queues[recipient] = Append(@, message)]
         IN  IF Hashable(message_id)
             THEN [queued EXCEPT
                      !.pending_confirmations = @ \cup {message_id},
                      !.stats.messages_sent = @ + 1,
                      !.ret = Some(TRUE)]
             ELSE [queued EXCEPT
                      !.stats.messages_failed = @ + 1,
                      !.ret = Some(FALSE)]

\* await message_broker.send_message(message): the bool it returns is last.ret
send_message(message) ==
    /\ StoreBroker(SendTo(SelfBroker, message))
    /\ last' = Outcome(SendTo(SelfBroker, message).ret, NoException, << >>)

\* `broadcast_message.metadata.recipient = recipient`: BaseMessage(...) was given
\* message.metadata itself, so the assignment writes the one MessageMetadata object
\* that `message` and every copy made before refer to
SetRecipient(message, message_id, recipient) ==
    IF message.metadata # None /\ Get(message.metadata).message_id = message_id
    THEN [message EXCEPT !.metadata = Some([Get(@) EXCEPT !.recipient = recipient])]
    ELSE message

SetRecipients(messages, message_id, recipient) ==
    [i \in 1..Len(messages) |-> SetRecipient(messages[i], message_id, recipient)]

\* the broker after that assignment: the copies queued so far show the new recipient
Assigned(self, message_id, recipient) ==
    [self EXCEPT
        !.message_history = SetRecipients(@, message_id, recipient),
        !.message_queues = [r \in DOMAIN @ |-> SetRecipients(@[r], message_id, recipient)]]

RECURSIVE broadcast_message(_, _, _, _)
\* broadcast_message(message, recipients) from its `for` loop on, success_count so
\* far; message.metadata is not None
broadcast_message(self, message, recipients, success_count) ==
    IF recipients = << >>
    THEN [self EXCEPT !.ret = Some(success_count)]
    ELSE LET recipient == Head(recipients)
             message_id == Get(message.metadata).message_id
             copy == SetRecipient(message, message_id, recipient)
             sent == SendTo(Assigned(self, message_id, recipient), copy)
         IN  broadcast_message(sent, copy, Tail(recipients),
                               IF sent.ret = Some(TRUE) THEN success_count + 1
                               ELSE success_count)

\* self.subscriptions.get(message.type, set())
Subscribers(type) ==
    IF type # None /\ Get(type) \in DOMAIN subscriptions THEN subscriptions[Get(type)] ELSE {}

\* list(subscribers): the elements of the set, in the order the set yields them
Lists(subscribers) ==
    {l \in [1..Cardinality(subscribers) -> subscribers] :
        \A i, j \in 1..Cardinality(subscribers) : l[i] = l[j] => i = j}

\* Faulty variant of publish_message: the copies go to every agent type
publish_message_to_all(self, message, recipients) ==
    broadcast_message(self, message, <<COORDINATOR, AGENT_DATA_FETCH>>, 0)

\* publish_message(message), `recipients` being list(subscribers)
publish_message(self, message, recipients) ==
    IF Subscribers(message.type) = {}
    THEN [self EXCEPT !.ret = Some(0)]
    ELSE broadcast_message(self, message, recipients, 0)

RECURSIVE get_messages_newest_first(_, _)
\* Faulty variant of get_messages: each message taken goes to the front of the list
get_messages_newest_first(queue, messages) ==
    IF queue = << >> THEN messages
    ELSE get_messages_newest_first(Tail(queue), <<Head(queue)>> \o messages)

\* Faulty variant of get_messages: only the first message is returned
get_messages_first_only(queue, messages) ==
    IF queue = << >> THEN messages ELSE Append(messages, Head(queue))

RECURSIVE get_messages(_, _)
\* the list get_messages returns from a queue that is not empty: queue.get(), then
\* queue.get_nowait() until the queue is empty, each appended to `messages`
get_messages(queue, messages) ==
    IF queue = << >> THEN messages
    ELSE get_messages(Tail(queue), Append(messages, Head(queue)))

\* Faulty variant of get_messages: the messages are read and left in the queue
Peek(agent_type) ==
    /\ UNCHANGED message_queues
    /\ stats' = [stats EXCEPT !.messages_delivered = @ + Len(get_messages(message_queues[agent_type], << >>))]

\* get_messages(agent_type, timeout) empties the queue and counts what it took as
\* delivered; on an empty queue it times out and returns []
Take(agent_type) ==
    /\ message_queues' = [message_queues EXCEPT ![agent_type] = << >>]
    /\ stats' = [stats EXCEPT !.messages_delivered = @ + Len(get_messages(message_queues[agent_type], << >>))]

\* the delivery task between two agents of a sweep, and after its end
Sweeping == [pc |-> "sweep", agent_type |-> None, agent |-> None, messages |-> << >>]
Done == [pc |-> "done", agent_type |-> None, agent |-> None, messages |-> << >>]

\* the delivery task after one message of its batch: the inner for loop goes on
\* with the next message, and after the last one the sweep goes on
Continue(task) ==
    IF Tail(task.messages) = << >> THEN Sweeping ELSE [task EXCEPT !.messages = Tail(@)]

\* Faulty variant of the inner except branch: the exception ends the delivery task
Uncaught(task) == Done

\* `except Exception as e:` around the delivery of one message: the failure is
\* logged and counted by the caller of this, and the loop goes on
Caught(task) == Continue(task)

\* await message_broker.start(); the model creates one delivery task and one
\* cleanup task
BrokerStart ==
    /\ delivery.pc = "none"
    /\ is_running' = TRUE
    /\ delivery' = Sweeping
    /\ cleanup' = "loop"
    /\ last' = Nothing
    /\ UNCHANGED <<agents, message_queues, message_history, pending_confirmations, stats,
                   message_queue, sends, subscriptions, coordinator, worker, wire, delivery2, handoffs>>

\* await message_broker.stop()
BrokerStop ==
    /\ is_running
    /\ is_running' = FALSE
    /\ last' = Nothing
    /\ UNCHANGED <<agents, message_queues, message_history, pending_confirmations, stats,
                   delivery, message_queue, sends, subscriptions, cleanup,
                   coordinator, worker, wire, delivery2, handoffs>>

\* message_broker.register_agent(agent_type, agent_instance)
Register ==
    \E agent_type \in Recipients, agent_instance \in AgentInstances :
        /\ agents' = Put(agents, agent_type, agent_instance)
        /\ last' = Nothing
        /\ UNCHANGED <<message_queues, message_history, pending_confirmations, is_running,
                       stats, delivery, message_queue, sends, subscriptions, cleanup,
                   coordinator, worker, wire, delivery2, handoffs>>

\* message_broker.register_agent(agent_type, agent) for an agent whose
\* receive_message raises
RegisterFailing ==
    \E agent_type \in Recipients :
        /\ agents' = Put(agents, agent_type, Failing)
        /\ last' = Nothing
        /\ UNCHANGED <<message_queues, message_history, pending_confirmations, is_running,
                       stats, delivery, message_queue, sends, subscriptions, cleanup,
                   coordinator, worker, wire, delivery2, handoffs>>

\* message_broker.unregister_agent(agent_type): the queue is kept
Unregister ==
    \E agent_type \in Recipients :
        /\ agents' = IF agent_type \in DOMAIN agents THEN Del(agents, agent_type) ELSE agents
        /\ last' = Nothing
        /\ UNCHANGED <<message_queues, message_history, pending_confirmations, is_running,
                       stats, delivery, message_queue, sends, subscriptions, cleanup,
                   coordinator, worker, wire, delivery2, handoffs>>

\* a caller hands its next message to send_message
Send ==
    \E recipient \in Recipients, form \in Forms :
        /\ sends < MaxSends
        /\ sends' = sends + 1
        /\ send_message(Message(sends + 1, recipient, form))
        /\ UNCHANGED <<agents, is_running, delivery, message_queue, subscriptions, cleanup,
                   coordinator, worker, wire, delivery2, handoffs>>

\* a caller other than the delivery loop awaits get_messages(agent_type) on a queue
\* that holds messages; the list goes to that caller
Drain ==
    \E agent_type \in Recipients :
        /\ message_queues[agent_type] # << >>
        /\ Take(agent_type)
        /\ last' = Nothing
        /\ UNCHANGED <<agents, message_history, pending_confirmations, is_running,
                       delivery, message_queue, sends, subscriptions, cleanup,
                   coordinator, worker, wire, delivery2, handoffs>>

\* the delivery loop comes to a registered agent that has receive_message and whose
\* queue holds messages: get_messages(agent_type, timeout=0.1) returns them.  The
\* agents are visited in any order, and the sweep that was under way when stop() was
\* called is finished
Sweep ==
    \E agent_type \in DOMAIN agents :
        /\ delivery.pc = "sweep"
        /\ HasReceive(agents[agent_type])
        /\ message_queues[agent_type] # << >>
        /\ Take(agent_type)
        /\ delivery' = [pc |-> "deliver", agent_type |-> Some(agent_type),
                        agent |-> Some(agents[agent_type]),
                        messages |-> get_messages(message_queues[agent_type], << >>)]
        /\ last' = Nothing
        /\ UNCHANGED <<agents, message_history, pending_confirmations, is_running,
                       message_queue, sends, subscriptions, cleanup,
                   coordinator, worker, wire, delivery2, handoffs>>

\* the delivery loop comes to a registered agent that has receive_message and whose
\* queue is empty: queue.get() inside get_messages(agent_type, timeout=0.1)
\* suspends, the loop variable `agent` holding the instance registered now
Wait ==
    \E agent_type \in DOMAIN agents :
        /\ delivery.pc = "sweep"
        /\ HasReceive(agents[agent_type])
        /\ message_queues[agent_type] = << >>
        /\ delivery' = [pc |-> "get", agent_type |-> Some(agent_type),
                        agent |-> Some(agents[agent_type]), messages |-> << >>]
        /\ last' = Nothing
        /\ UNCHANGED <<agents, message_queues, message_history, pending_confirmations,
                       is_running, stats, message_queue, sends, subscriptions, cleanup,
                   coordinator, worker, wire, delivery2, handoffs>>

\* the suspended queue.get() returns: a message was put meanwhile and get_messages
\* returns what the queue holds, or the 0.1 s passed and it returns []
Resume ==
    /\ delivery.pc = "get"
    /\ IF message_queues[Get(delivery.agent_type)] # << >>
       THEN /\ Take(Get(delivery.agent_type))
            /\ delivery' = [delivery EXCEPT
                               !.pc = "deliver",
                               !.messages = get_messages(message_queues[Get(delivery.agent_type)], << >>)]
       ELSE /\ delivery' = Sweeping
            /\ UNCHANGED <<message_queues, stats>>
    /\ last' = Nothing
    /\ UNCHANGED <<agents, message_history, pending_confirmations, is_running,
                   message_queue, sends, subscriptions, cleanup,
                   coordinator, worker, wire, delivery2, handoffs>>

\* one more call of receive_message with the queue entry, whether it returned or
\* raised
HandedOver(counts, agent_type, message) ==
    LET entry == <<agent_type, Get(message.metadata).message_id>> IN
    Put(counts, entry, IF entry \in DOMAIN counts THEN counts[entry] + 1 ELSE 1)

\* `await agent.receive_message(message)` for the next message of the batch:
\* BaseAgent.receive_message puts it on the worker's own queue, then the pending
\* confirmation is deleted.  An Exception from receive_message, or from the test
\* `message_id in self.pending_confirmations` when the id cannot be a key, is
\* caught and counted in messages_failed
Deliver ==
    /\ delivery.pc = "deliver"
    /\ LET message == Head(delivery.messages)
           agent_type == Get(delivery.agent_type)
           message_id == Get(message.metadata).message_id
       IN  IF Get(delivery.agent) = Failing
           THEN /\ stats' = [stats EXCEPT !.messages_failed = @ + 1]
                /\ delivery' = Caught(delivery)
                /\ UNCHANGED <<message_queue, pending_confirmations>>
           ELSE /\ message_queue' = [message_queue EXCEPT ![agent_type] = Append(@, message)]
                /\ IF Hashable(message_id)
                   THEN /\ pending_confirmations' = pending_confirmations \ {message_id}
                        /\ delivery' = Continue(delivery)
                        /\ UNCHANGED stats
                   ELSE /\ stats' = [stats EXCEPT !.messages_failed = @ + 1]
                        /\ delivery' = Caught(delivery)
                        /\ UNCHANGED pending_confirmations
    /\ handoffs' = HandedOver(handoffs, Get(delivery.agent_type), Head(delivery.messages))
    /\ last' = Nothing
    /\ UNCHANGED <<agents, message_queues, message_history, is_running, sends,
                   subscriptions, cleanup,
                   coordinator, worker, wire, delivery2>>

\* `while self.is_running:` is found false and the delivery task ends
Exit ==
    /\ delivery.pc = "sweep"
    /\ ~is_running
    /\ delivery' = Done
    /\ last' = Nothing
    /\ UNCHANGED <<agents, message_queues, message_history, pending_confirmations,
                   is_running, stats, message_queue, sends, subscriptions, cleanup,
                   coordinator, worker, wire, delivery2, handoffs>>

(* The broker alone: callers send, drain, register and unregister while the      *)
(* delivery loop runs.                                                           *)
NextBroker ==
    \/ BrokerStart
    \/ BrokerStop
    \/ Register
    \/ Unregister
    \/ Send
    \/ Drain
    \/ Sweep
    \/ Deliver
    \/ Exit

SpecBroker == Init /\ [][NextBroker]_vars

\* broadcast_message and publish_message are called at most this many times
MaxPosts == 2

\* the message types subscribed to and published
MessageTypes == {"HEARTBEAT", "TASK_FAILED"}

\* message_broker.subscribe(agent_type, message_type)
Subscribe ==
    \E agent_type \in Recipients, message_type \in MessageTypes :
        /\ subscriptions' = Put(subscriptions, message_type,
                                Subscribers(Some(message_type)) \cup {agent_type})
        /\ last' = Nothing
        /\ UNCHANGED <<agents, message_queues, message_history, pending_confirmations,
                       is_running, stats, delivery, message_queue, sends, cleanup,
                       coordinator, worker, wire, delivery2, handoffs>>

\* message_broker.unsubscribe(agent_type, message_type); the defaultdict creates the
\* set it discards from
Unsubscribe ==
    \E agent_type \in Recipients, message_type \in MessageTypes :
        /\ subscriptions' = Put(subscriptions, message_type,
                                Subscribers(Some(message_type)) \ {agent_type})
        /\ last' = Nothing
        /\ UNCHANGED <<agents, message_queues, message_history, pending_confirmations,
                       is_running, stats, delivery, message_queue, sends, cleanup,
                       coordinator, worker, wire, delivery2, handoffs>>

\* the lists of recipients a caller may hand to broadcast_message
RecipientLists ==
    {<< >>} \cup {<<r>> : r \in Recipients} \cup {<<r, q>> : r, q \in Recipients}

\* the shapes of message a caller hands to broadcast_message and publish_message:
\* they have a MessageMetadata (metadata = None raises AttributeError at 136)
CopiedForms == {"well-formed", "empty payload", "list id"}

\* the n-th message, of the given type
Typed(n, message_type, form) ==
    [Message(n, COORDINATOR, form) EXCEPT !.type = Some(message_type)]

\* count = await message_broker.broadcast_message(message, recipients)
Broadcast ==
    \E recipients \in RecipientLists, message_type \in MessageTypes, form \in CopiedForms :
        LET sent == broadcast_message(SelfBroker, Typed(sends + 1, message_type, form),
                                      recipients, 0)
        IN  /\ sends < MaxPosts
            /\ sends' = sends + 1
            /\ StoreBroker(sent)
            /\ last' = Outcome(sent.ret, NoException, << >>)
            /\ UNCHANGED <<agents, is_running, delivery, message_queue, subscriptions,
                           cleanup, coordinator, worker, wire, delivery2, handoffs>>

\* count = await message_broker.publish_message(message)
Publish ==
    \E message_type \in MessageTypes, form \in CopiedForms :
        \E recipients \in Lists(Subscribers(Some(message_type))) :
            LET sent == publish_message(SelfBroker, Typed(sends + 1, message_type, form),
                                        recipients)
            IN  /\ sends < MaxPosts
                /\ sends' = sends + 1
                /\ StoreBroker(sent)
                /\ last' = Outcome(sent.ret, NoException, << >>)
                /\ UNCHANGED <<agents, is_running, delivery, message_queue, subscriptions,
                               cleanup, coordinator, worker, wire, delivery2, handoffs>>

(* Broadcasting, with the delivery loop of a started broker.                    *)
NextBroadcast ==
    \/ BrokerStart
    \/ Register
    \/ Broadcast
    \/ Sweep
    \/ Deliver

SpecBroadcast == Init /\ [][NextBroadcast]_vars

(* Publishing among changing subscriptions.                                     *)
NextPublish ==
    \/ Subscribe
    \/ Unsubscribe
    \/ Publish

SpecPublish == Init /\ [][NextPublish]_vars

(* Registration changes while the delivery loop of a started broker waits on    *)
(* empty queues and delivers.                                                   *)
NextRegister ==
    \/ BrokerStart
    \/ Register
    \/ Unregister
    \/ Send
    \/ Sweep
    \/ Wait
    \/ Resume
    \/ Deliver

SpecRegister == Init /\ [][NextRegister]_vars

(* The delivery loop of a broker that stays started, among workers some of which *)
(* raise in receive_message; no other caller takes messages from the queues.    *)
(* The event loop runs the delivery task again and again: weak fairness of its  *)
(* two steps.                                                                   *)
NextDeliver ==
    \/ BrokerStart
    \/ Register
    \/ RegisterFailing
    \/ Unregister
    \/ Send
    \/ Sweep
    \/ Deliver

SpecDeliver ==
    /\ Init
    /\ [][NextDeliver]_vars
    /\ WF_vars(Sweep)
    /\ WF_vars(Deliver)

(* ---- start() called twice: two delivery loops ---- *)

\* await message_broker.start() once more: start() tests nothing, so a second
\* _delivery_loop task is created beside the first (and a second cleanup task,
\* which does what the first one does)
BrokerStartAgain ==
    /\ delivery.pc # "none"
    /\ delivery2.pc = "none"
    /\ is_running' = TRUE
    /\ delivery2' = Sweeping
    /\ last' = Nothing
    /\ UNCHANGED <<agents, message_queues, message_history, pending_confirmations, stats,
                   delivery, message_queue, sends, subscriptions, cleanup, handoffs,
                   coordinator, worker, wire>>

\* the steps of the second delivery task: the code of the first
SweepSecond ==
    \E agent_type \in DOMAIN agents :
        /\ delivery2.pc = "sweep"
        /\ HasReceive(agents[agent_type])
        /\ message_queues[agent_type] # << >>
        /\ Take(agent_type)
        /\ delivery2' = [pc |-> "deliver", agent_type |-> Some(agent_type),
                         agent |-> Some(agents[agent_type]),
                         messages |-> get_messages(message_queues[agent_type], << >>)]
        /\ last' = Nothing
        /\ UNCHANGED <<agents, message_history, pending_confirmations, is_running,
                       delivery, message_queue, sends, subscriptions, cleanup, handoffs,
                       coordinator, worker, wire>>

WaitSecond ==
    \E agent_type \in DOMAIN agents :
        /\ delivery2.pc = "sweep"
        /\ HasReceive(agents[agent_type])
        /\ message_queues[agent_type] = << >>
        /\ delivery2' = [pc |-> "get", agent_type |-> Some(agent_type),
                         agent |-> Some(agents[agent_type]), messages |-> << >>]
        /\ last' = Nothing
        /\ UNCHANGED <<agents, message_queues, message_history, pending_confirmations,
                       is_running, stats, delivery, message_queue, sends, subscriptions,
                       cleanup, handoffs, coordinator, worker, wire>>

ResumeSecond ==
    /\ delivery2.pc = "get"
    /\ IF message_queues[Get(delivery2.agent_type)] # << >>
       THEN /\ Take(Get(delivery2.agent_type))
            /\ delivery2' = [delivery2 EXCEPT
                                !.pc = "deliver",
                                !.messages = get_messages(message_queues[Get(delivery2.agent_type)], << >>)]
       ELSE /\ delivery2' = Sweeping
            /\ UNCHANGED <<message_queues, stats>>
    /\ last' = Nothing
    /\ UNCHANGED <<agents, message_history, pending_confirmations, is_running,
                   delivery, message_queue, sends, subscriptions, cleanup, handoffs,
                   coordinator, worker, wire>>

DeliverSecond ==
    /\ delivery2.pc = "deliver"
    /\ LET message == Head(delivery2.messages)
           agent_type == Get(delivery2.agent_type)
           message_id == Get(message.metadata).message_id
       IN  IF Get(delivery2.agent) = Failing
           THEN /\ stats' = [stats EXCEPT !.messages_failed = @ + 1]
                /\ delivery2' = Caught(delivery2)
                /\ UNCHANGED <<message_queue, pending_confirmations>>
           ELSE /\ message_queue' = [message_queue EXCEPT ![agent_type] = Append(@, message)]
                /\ IF Hashable(message_id)
                   THEN /\ pending_confirmations' = pending_confirmations \ {message_id}
                        /\ delivery2' = Continue(delivery2)
                        /\ UNCHANGED stats
                   ELSE /\ stats' = [stats EXCEPT !.messages_failed = @ + 1]
                        /\ delivery2' = Caught(delivery2)
                        /\ UNCHANGED pending_confirmations
    /\ handoffs' = HandedOver(handoffs, Get(delivery2.agent_type), Head(delivery2.messages))
    /\ last' = Nothing
    /\ UNCHANGED <<agents, message_queues, message_history, is_running, sends,
                   subscriptions, cleanup, delivery, coordinator, worker, wire>>

(* Two delivery loops take messages from the same queues, for workers some of    *)
(* which raise in receive_message, in any interleaving with the senders.         *)
NextTwoLoops ==
    \/ BrokerStart
    \/ BrokerStartAgain
    \/ Register
    \/ RegisterFailing
    \/ Send
    \/ Sweep
    \/ Wait
    \/ Resume
    \/ Deliver
    \/ SweepSecond
    \/ WaitSecond
    \/ ResumeSecond
    \/ DeliverSecond

SpecTwoLoops == Init /\ [][NextTwoLoops]_vars

(* ---- the cleanup loop ---- *)

\* The cleanup loop keeps this many messages of the history: 1000 in the code,
\* scaled down so that a few sends exceed it
HistoryLimit == 2

\* Faulty variant of the slice: the oldest n messages are kept
Oldest(messages, n) == SubSeq(messages, 1, n)

\* messages[-n:] for a list longer than n
Newest(messages, n) == SubSeq(messages, Len(messages) - n + 1, Len(messages))

\* One pass of `while self.is_running:` in _cleanup_loop, then asyncio.sleep(60);
\* or the exit of the loop when it wakes in a stopped broker. Which pending
\* confirmations are older than 5 minutes depends on the clock: any of them.
Cleanup ==
    /\ cleanup = "loop"
    /\ IF is_running
       THEN /\ message_history' = IF Len(message_history) > HistoryLimit
                                  THEN Newest(message_history, HistoryLimit)
                                  ELSE message_history
            /\ \E expired_confirmations \in SUBSET pending_confirmations :
                   pending_confirmations' = pending_confirmations \ expired_confirmations
            /\ UNCHANGED cleanup
       ELSE /\ cleanup' = "done"
            /\ UNCHANGED <<message_history, pending_confirmations>>
    /\ last' = Nothing
    /\ UNCHANGED <<agents, message_queues, is_running, stats, delivery, message_queue,
                   sends, subscriptions, coordinator, worker, wire, delivery2, handoffs>>

(* Callers send to a broker that may be started and stopped, while the cleanup   *)
(* task runs now and then.                                                       *)
NextCleanup ==
    \/ BrokerStart
    \/ BrokerStop
    \/ Send
    \/ Cleanup

SpecCleanup == Init /\ [][NextCleanup]_vars

(* ---- a worker (core/base_agent.py, agents/data_fetch_agent.py) ---- *)

\* AgentConfig.max_retries goes up to this in the model
MaxRetries == 3

\* AgentConfig.retry_delay, in seconds
RetryDelays == {1, 2}

\* AgentConfig(max_retries=..., retry_delay=...)
AgentConfig(max_retries, retry_delay) == [max_retries |-> max_retries, retry_delay |-> retry_delay]

\* str(e) of the exception the database raised
QueryError == <<"query", "failed">>

\* TaskStatusPayload(task_id, status, progress, message, error).to_dict()
TaskStatusPayload(task_id, status, error) ==
    [task_id |-> task_id, status |-> status, progress |-> None, message |-> None,
     error |-> error]

\* BaseAgent.create_status_message: create_message is called without a
\* correlation id, which defaults to None
create_status_message(agent_type, recipient, task_id, status, error) ==
    create_message(IF status = "started" THEN "TASK_STARTED"
                   ELSE IF status = "completed" THEN "TASK_COMPLETED"
                   ELSE "TASK_FAILED",
                   agent_type, recipient, TaskStatusPayload(task_id, status, error), None)

\* DataFetchAgent.handle_fetch_data, the database answering (ok) or raising: the
\* messages it sends, what it returns and whether it raises.  The message id that
\* serves as task id is not modelled.
handle_fetch_data(message, ok) ==
    IF ok
    THEN LET response == create_message("RAW_DATA", AGENT_DATA_FETCH, AGENT_NORMALIZATION,
                                        [data |-> "d1"], message.metadata.correlation_id)
         IN  Outcome(Some(response), NoException, <<response>>)
    ELSE Outcome(None, "Exception",
                 <<create_status_message(AGENT_DATA_FETCH, COORDINATOR, <<"id">>, "failed",
                                         QueryError)>>)

\* Faulty variant of the delay: the exponent is the attempt itself
BackoffLate(retry_delay, attempt) == retry_delay * (2 ^ attempt)

\* self.config.retry_delay * (2 ** (attempt - 1))
Backoff(retry_delay, attempt) == retry_delay * (2 ^ (attempt - 1))

\* _process_message(message) in an agent constructed with `config`, up to the
\* first invocation of the handler by _execute_with_retry (attempt 0, no delay)
_process_message(message, config) ==
    /\ worker.pc = "idle"
    /\ worker' = [worker EXCEPT !.pc = "call", !.config = Some(config),
                                !.message = Some(message), !.task_status = Some("running")]
    /\ last' = Nothing

\* A FETCH_DATA message reaches the worker, whatever its correlation id
Process ==
    \E max_retries \in 0..MaxRetries, retry_delay \in RetryDelays, c \in CorrelationIds :
        /\ _process_message(create_fetch_data_message(COORDINATOR, None, None, None, c),
                            AgentConfig(max_retries, retry_delay))
        /\ UNCHANGED <<coordinator, broker, wire>>

\* The FETCH_DATA message the coordinator sent for a pipeline reaches the worker
Fetch ==
    \E pipeline_id \in DOMAIN active_pipelines :
        \E max_retries \in 0..MaxRetries, retry_delay \in RetryDelays :
            /\ active_pipelines[pipeline_id].current_stage = DATA_FETCH
            /\ _process_message(FetchMessage(active_pipelines[pipeline_id]),
                                AgentConfig(max_retries, retry_delay))
            /\ UNCHANGED <<coordinator, broker, wire>>

\* `await asyncio.sleep(delay)` before a retry
Sleep ==
    /\ worker.pc = "sleep"
    /\ worker' = [worker EXCEPT
                     !.pc = "call",
                     !.slept = Append(@, Backoff(Get(worker.config).retry_delay,
                                                 worker.attempt))]
    /\ last' = Nothing
    /\ UNCHANGED <<coordinator, broker, wire>>

\* `return await handler(message)` and what follows it: the handler's result is
\* returned to _process_message, which completes the task; or the exception is
\* caught and the loop goes on; or, at the last attempt, it is raised to
\* _process_message, which logs it and fails the task
Call ==
    /\ worker.pc = "call"
    /\ \E ok \in BOOLEAN :
          LET handled == handle_fetch_data(Get(worker.message), ok)
              called == [worker EXCEPT !.calls = @ + 1, !.sent = @ \o handled.sent]
          IN  worker' =
                 IF handled.raised = NoException
                 THEN [called EXCEPT !.pc = "done", !.result = handled.ret,
                                     !.task_status = Some("completed")]
                 ELSE IF worker.attempt < Get(worker.config).max_retries
                 THEN [called EXCEPT !.pc = "sleep", !.attempt = @ + 1]
                 ELSE [called EXCEPT !.pc = "done", !.raised = handled.raised,
                                     !.task_status = Some("failed")]
    /\ last' = Nothing
    /\ UNCHANGED <<coordinator, broker, wire>>

\* The next message the worker sent reaches its recipient (BaseAgent._route_message
\* only logs; the model lets the message arrive): the coordinator handles a
\* TASK_FAILED addressed to it, any other message goes to another worker
Route ==
    /\ worker.routed < Len(worker.sent)
    /\ worker' = [worker EXCEPT !.routed = @ + 1]
    /\ LET message == worker.sent[worker.routed + 1] IN
       IF message.type = "TASK_FAILED" /\ message.metadata.recipient = COORDINATOR
       THEN handle_task_failed(message)
       ELSE last' = Nothing /\ UNCHANGED <<pipelines, metrics, tasks, uuids, now>>
    /\ UNCHANGED <<pipeline_config, strays, broker, wire, extraction>>

(* A worker processes one message: the event loop resumes a sleeping worker and *)
(* the handler returns or raises, so both steps are taken in the end.           *)
NextRetry ==
    \/ Process
    \/ Sleep
    \/ Call

SpecRetry ==
    /\ Init
    /\ [][NextRetry]_vars
    /\ WF_vars(Sleep)
    /\ WF_vars(Call)

(* The coordinator starts pipelines and the data fetch worker processes the      *)
(* FETCH_DATA message of one of them; what the worker sends reaches the          *)
(* coordinator.                                                                  *)
NextWorker ==
    \/ Start
    \/ Execute
    \/ Fetch
    \/ Sleep
    \/ Call
    \/ Route

SpecWorker == InitMany /\ [][NextWorker]_vars

(* ---- messages on the wire (models/message_types.py) ---- *)

\* A member of an enumeration class; `value` is its .value.  MessageType(value) and
\* AgentType(value) look the member up by its value.
Member(enum, value) == [enum |-> enum, value |-> value]
MessageTypeMembers == {Member("MessageType", v) : v \in {"FETCH_DATA", "RAW_DATA", "TASK_FAILED"}}
AgentTypeMembers == {Member("AgentType", v) : v \in {"coordinator", "data_fetch"}}
MessageType(value) == CHOOSE member \in MessageTypeMembers : member.value = value
AgentType(value) == CHOOSE member \in AgentTypeMembers : member.value = value

\* A datetime: the date as a day number, the second of the day and the microsecond
datetime(day, second, microsecond) == [day |-> day, second |-> second, microsecond |-> microsecond]

\* Faulty variant of isoformat: the microseconds are never written
isoformat_seconds(timestamp) == Str(timestamp.day) \o <<"T">> \o Str(timestamp.second)

\* datetime.isoformat(): date, "T", time; the microseconds only when they are not 0
isoformat(timestamp) ==
    Str(timestamp.day) \o <<"T">> \o Str(timestamp.second)
        \o (IF timestamp.microsecond = 0 THEN << >> ELSE <<".">> \o Str(timestamp.microsecond))

\* the digit a token stands for
DigitValue(token) == (CHOOSE i \in 1..10 : Digit[i] = token) - 1

RECURSIVE Number(_)
\* int(s) of a string of digits
Number(s) ==
    IF Len(s) = 0 THEN 0
    ELSE 10 * Number(SubSeq(s, 1, Len(s) - 1)) + DigitValue(s[Len(s)])

\* datetime.fromisoformat(): without a fraction the microseconds are 0
fromisoformat(text) ==
    LET t == IndexOf(text, "T", 1)
        dot == IndexOf(text, ".", 1)
    IN  datetime(Number(SubSeq(text, 1, t - 1)),
                 Number(SubSeq(text, t + 1, dot - 1)),
                 IF dot > Len(text) THEN 0 ELSE Number(SubSeq(text, dot + 1, Len(text))))

\* The JSON-native values of Python, each with its type: None, str, int, bool, a
\* dict with str keys, a list
NoneValue == [py |-> "NoneType"]
StrValue(s) == [py |-> "str", value |-> s]
IntValue(n) == [py |-> "int", value |-> n]
BoolValue(b) == [py |-> "bool", value |-> b]
DictValue(d) == [py |-> "dict", value |-> d]
ListValue(l) == [py |-> "list", value |-> l]

RECURSIVE dumps(_)
\* json.dumps(v): the JSON text as its syntax tree, numbers written in digits
dumps(v) ==
    CASE v.py = "NoneType" -> [json |-> "null"]
      [] v.py = "str" -> [json |-> "string", text |-> v.value]
      [] v.py = "int" -> [json |-> "number", text |-> Str(v.value)]
      [] v.py = "bool" -> [json |-> IF v.value THEN "true" ELSE "false"]
      [] v.py = "dict" -> [json |-> "object",
                           members |-> [k \in DOMAIN v.value |-> dumps(v.value[k])]]
      [] v.py = "list" -> [json |-> "array",
                           elements |-> [i \in DOMAIN v.value |-> dumps(v.value[i])]]

RECURSIVE loads(_)
\* json.loads(text)
loads(text) ==
    CASE text.json = "null" -> NoneValue
      [] text.json = "string" -> StrValue(text.text)
      [] text.json = "number" -> IntValue(Number(text.text))
      [] text.json = "true" -> BoolValue(TRUE)
      [] text.json = "false" -> BoolValue(FALSE)
      [] text.json = "object" -> DictValue([k \in DOMAIN text.members |-> loads(text.members[k])])
      [] text.json = "array" -> ListValue([i \in DOMAIN text.elements |-> loads(text.elements[i])])

\* MessageMetadata(message_id, sender, recipient, timestamp, correlation_id, retry_count)
Metadata(message_id, sender, recipient, timestamp, correlation_id, retry_count) ==
    [message_id |-> message_id, sender |-> sender, recipient |-> recipient,
     timestamp |-> timestamp, correlation_id |-> correlation_id, retry_count |-> retry_count]

\* MessageMetadata.to_dict
to_dict(metadata) ==
    DictValue([message_id |-> StrValue(metadata.message_id),
               sender |-> StrValue(metadata.sender.value),
               recipient |-> StrValue(metadata.recipient.value),
               timestamp |-> StrValue(isoformat(metadata.timestamp)),
               correlation_id |-> IF metadata.correlation_id = None THEN NoneValue
                                  ELSE StrValue(Get(metadata.correlation_id)),
               retry_count |-> IntValue(metadata.retry_count)])

\* BaseMessage.to_json
to_json(message) ==
    dumps(DictValue([type |-> StrValue(message.type.value),
                     metadata |-> to_dict(message.metadata),
                     payload |-> DictValue(message.payload)]))

\* d.get(key) of a dict read from JSON, for a key that holds a str or null
GetStr(d, key) ==
    IF key \in DOMAIN d /\ d[key].py # "NoneType" THEN Some(d[key].value) ELSE None

\* BaseMessage.from_json
from_json(json_str) ==
    LET data == loads(json_str).value
        metadata == data.metadata.value
    IN  BaseMessage(MessageType(data.type.value),
                    Metadata(metadata.message_id.value,
                             AgentType(metadata.sender.value),
                             AgentType(metadata.recipient.value),
                             fromisoformat(metadata.timestamp.value),
                             GetStr(metadata, "correlation_id"),
                             IF "retry_count" \in DOMAIN metadata
                             THEN metadata.retry_count.value ELSE 0),
                    data.payload.value)

\* the messages serialized: every type and agent type above, timestamps with and
\* without microseconds, with and without a correlation id, and payloads of
\* JSON-native values (empty, flat, with null, nested)
Timestamps == {datetime(day, second, microsecond) : day \in {1, 12}, second \in {0, 70}, microsecond \in {0, 5}}
JsonPayloads ==
    {EmptyDict,
     [status |-> StrValue("running")],
     [count |-> IntValue(12), note |-> NoneValue, ready |-> BoolValue(TRUE)],
     [tables |-> ListValue(<<StrValue("returns"), StrValue("products")>>),
      filters |-> DictValue([store_locations |-> ListValue(<<StrValue("all")>>)])]}
WireMessages ==
    {BaseMessage(type, Metadata(message_id, sender, recipient, timestamp, correlation_id, retry_count), payload) :
        type \in MessageTypeMembers, message_id \in {"m1"}, sender \in AgentTypeMembers,
        recipient \in AgentTypeMembers, timestamp \in Timestamps,
        correlation_id \in {None, Some("u1_data_fetch")}, retry_count \in {0, 2},
        payload \in JsonPayloads}

\* message.to_json() of some message
ToJson ==
    /\ wire.json = None
    /\ \E message \in WireMessages :
          wire' = [message |-> Some(message), json |-> Some(to_json(message)), parsed |-> None]
    /\ last' = Nothing
    /\ UNCHANGED <<coordinator, broker, worker>>

\* BaseMessage.from_json(text) of the text written
FromJson ==
    /\ wire.json # None
    /\ wire.parsed = None
    /\ wire' = [wire EXCEPT !.parsed = Some(from_json(Get(wire.json)))]
    /\ last' = Nothing
    /\ UNCHANGED <<coordinator, broker, worker>>

(* A message is written as JSON and read back.                                   *)
NextJson ==
    \/ ToJson
    \/ FromJson

SpecJson == Init /\ [][NextJson]_vars

----------------------------------------------------------------------------
(* Properties *)

\* the ids start_pipeline has returned so far: one uuid4() value for each call that
\* was not refused
Returned == {uuid4(n) : n \in 1..uuids}

Terminal(pipeline) == pipeline.status \in {COMPLETED, FAILED, CANCELLED}

\* the pipeline a correlation id resolves to is active
Resolves(message, pipeline_id) ==
    /\ _extract_pipeline_id(message.metadata.correlation_id) = Some(pipeline_id)
    /\ pipeline_id \in DOMAIN active_pipelines

\* the correlation id is absent, or the id extracted from it is not active
Unresolved(message) ==
    LET pipeline_id == _extract_pipeline_id(message.metadata.correlation_id) IN
    pipeline_id = None \/ Get(pipeline_id) \notin DOMAIN active_pipelines

\* the text holds the word
Contains(text, word) == \E i \in 1..Len(text) : text[i] = word

\* the pipelines this step takes out of active_pipelines
Finalized == DOMAIN active_pipelines \ DOMAIN active_pipelines'

\* C1: every pipeline id start_pipeline has returned is a key of exactly one of
\* active_pipelines and completed_pipelines, and the two dicts hold no other key
C1_ExactlyOneMap ==
    /\ \A p \in Returned :
          (p \in DOMAIN active_pipelines) # (p \in DOMAIN completed_pipelines)
    /\ DOMAIN active_pipelines \cup DOMAIN completed_pipelines \subseteq Returned

\* two pipelines were started, one is finalized and the other still active
C1_Witness ==
    /\ uuids = 2
    /\ \E p \in DOMAIN completed_pipelines, q \in DOMAIN active_pipelines : p # q

\* C2: a pipeline is finalized once: a step never takes a completed pipeline out of
\* completed_pipelines nor changes its status, every pipeline a step takes out of
\* active_pipelines arrives in completed_pipelines with a terminal status, and the
\* counters grow by at most one for each pipeline finalized in the step
\* (successful_pipelines for those Completed, failed_pipelines for those Failed)
C2_FinalizedOnce ==
    [][/\ \A p \in DOMAIN completed_pipelines :
             /\ p \in DOMAIN completed_pipelines'
             /\ p \notin DOMAIN active_pipelines'
             /\ completed_pipelines'[p].status = completed_pipelines[p].status
       /\ \A p \in Finalized :
             /\ p \in DOMAIN completed_pipelines'
             /\ Terminal(completed_pipelines'[p])
       /\ total_pipelines_executed' - total_pipelines_executed \in 0..Cardinality(Finalized)
       /\ successful_pipelines' - successful_pipelines =
             Cardinality({p \in Finalized : completed_pipelines'[p].status = COMPLETED})
       /\ failed_pipelines' - failed_pipelines =
             Cardinality({p \in Finalized : completed_pipelines'[p].status = FAILED})
      ]_vars

\* the execution task of a pipeline timed out in DATA_FETCH after the pipeline was
\* cancelled: its finalization came second and counted nothing
C2_Witness ==
    \E p \in DOMAIN completed_pipelines :
        /\ completed_pipelines[p].status = CANCELLED
        /\ completed_pipelines[p].current_stage = DATA_FETCH
        /\ tasks[p].pc = "finished"
        /\ total_pipelines_executed = 0

\* C3: once the status of a pipeline is Completed, Failed or Cancelled, no step
\* changes its status, current_stage, error_message, completed_at,
\* stage_completion_times or result fields
C3_TerminalAbsorbing ==
    [][\A p \in DOMAIN active_pipelines \cup DOMAIN completed_pipelines :
          Terminal(Object(Self, p)) =>
             /\ p \in DOMAIN completed_pipelines'
             /\ LET before == Object(Self, p)
                    after == completed_pipelines'[p]
                IN  /\ after.status = before.status
                    /\ after.current_stage = before.current_stage
                    /\ after.error_message = before.error_message
                    /\ after.completed_at = before.completed_at
                    /\ after.stage_completion_times = before.stage_completion_times
                    /\ after.data_fetch_result = before.data_fetch_result
                    /\ after.normalization_result = before.normalization_result
                    /\ after.rag_result = before.rag_result
                    /\ after.report_result = before.report_result
      ]_vars

\* a pipeline failed by TASK_FAILED whose execution task ran afterwards, at a later
\* time, and ended
C3_Witness ==
    \E p \in DOMAIN completed_pipelines :
        /\ completed_pipelines[p].status = FAILED
        /\ completed_pipelines[p].error_message = Some(<<"boom">>)
        /\ Get(completed_pipelines[p].completed_at) < now
        /\ tasks[p].pc = "finished"

\* C4: start_pipeline called while len(active_pipelines) >= max_concurrent_pipelines
\* raises RuntimeError, returns no id, creates no pipeline and no task, and leaves
\* both dicts and the counters unchanged
C4_CapacityError ==
    [][\A d \in DateRangeArgs, t \in TablesArgs, f \in FiltersArgs :
          start_pipeline(d, t, f) /\ Full =>
             /\ last'.raised = "RuntimeError"
             /\ last'.ret = None
             /\ UNCHANGED <<active_pipelines, completed_pipelines, total_pipelines_executed,
                            successful_pipelines, failed_pipelines, tasks, uuids>>
      ]_vars

\* a call was refused with the one allowed pipeline active
C4_Witness ==
    /\ last.raised = "RuntimeError"
    /\ uuids = 1
    /\ Cardinality(DOMAIN active_pipelines) = pipeline_config.max_concurrent_pipelines

\* C5: len(active_pipelines) <= max_concurrent_pipelines in every reachable state
C5_WithinCapacity ==
    Cardinality(DOMAIN active_pipelines) <= pipeline_config.max_concurrent_pipelines

\* two pipelines are active under a limit of two
C5_Witness ==
    /\ pipeline_config.max_concurrent_pipelines = 2
    /\ Cardinality(DOMAIN active_pipelines) = 2

\* what a data handler leaves behind for an active pipeline p: the stage completed,
\* the payload in the result field, and one message of the next kind sent to the
\* next worker with the payload and a correlation id that resolves to p
Handled(message, p, stage, result, kind, recipient) ==
    /\ p \in DOMAIN active_pipelines'
    /\ stage \in DOMAIN active_pipelines'[p].stage_completion_times
    /\ active_pipelines'[p][result] = Some(message.payload)
    /\ Len(last'.sent) = 1
    /\ last'.sent[1].type = kind
    /\ last'.sent[1].metadata.recipient = recipient
    /\ last'.sent[1].payload = message.payload
    /\ _extract_pipeline_id(last'.sent[1].metadata.correlation_id) = Some(p)
    /\ last'.raised = NoException

\* C6: each data handler, called with a message whose correlation id resolves to an
\* active pipeline p, records the completion of its stage and the payload as the
\* stage's result, and sends exactly one message of the next kind to the next worker
\* with the same payload and a correlation id that resolves to p
C6_HandlersForward ==
    [][\A p \in DOMAIN active_pipelines :
          /\ \A m \in RawDataMessages :
                Resolves(m, p) /\ handle_raw_data(m) =>
                   Handled(m, p, DATA_FETCH, "data_fetch_result",
                           "NORMALIZE_DATA", AGENT_NORMALIZATION)
          /\ \A m \in CleanDataMessages :
                Resolves(m, p) /\ handle_clean_data(m) =>
                   Handled(m, p, NORMALIZATION, "normalization_result",
                           "GENERATE_INSIGHTS", AGENT_RAG)
          /\ \A m \in InsightsMessages :
                Resolves(m, p) /\ handle_insights(m) =>
                   Handled(m, p, RAG_PROCESSING, "rag_result",
                           "CREATE_REPORT", AGENT_REPORT)
          /\ \A m \in ReportReadyMessages :
                Resolves(m, p) /\ handle_report_ready(m) =>
                   Handled(m, p, REPORT_GENERATION, "report_result",
                           "DASHBOARD_READY", AGENT_DASHBOARD)
      ]_vars

\* handle_report_ready has just forwarded the report of a pipeline that is in
\* REPORT_GENERATION
C6_Witness ==
    /\ Len(last.sent) = 1
    /\ last.sent[1].type = "DASHBOARD_READY"
    /\ \E p \in DOMAIN active_pipelines :
          /\ active_pipelines[p].current_stage = REPORT_GENERATION
          /\ active_pipelines[p].report_result = Some(last.sent[1].payload)
          /\ REPORT_GENERATION \in DOMAIN active_pipelines[p].stage_completion_times

\* C7: handle_task_failed, called with a message whose correlation id resolves to an
\* active pipeline, moves the pipeline to completed_pipelines in that very step,
\* with status Failed and the payload's error field as error_message, while the
\* clock stands; and no step that raises is a call of handle_task_failed
C7_TaskFailed ==
    [][/\ \A p \in DOMAIN active_pipelines, m \in TaskFailedMessages :
             Resolves(m, p) /\ handle_task_failed(m) =>
                /\ p \notin DOMAIN active_pipelines'
                /\ p \in DOMAIN completed_pipelines'
                /\ completed_pipelines'[p].status = FAILED
                /\ "error" \in DOMAIN m.payload =>
                      completed_pipelines'[p].error_message = Some(m.payload.error)
                /\ completed_pipelines'[p].completed_at = Some(now)
                /\ now' = now
       /\ last'.raised # NoException =>
             \A m \in TaskFailedMessages : ~handle_task_failed(m)
      ]_vars

\* a pipeline failed with the payload's error while waiting in RAG_PROCESSING, at
\* a time when neither that stage nor the pipeline had timed out
C7_Witness ==
    \E p \in DOMAIN completed_pipelines :
        LET pipeline == completed_pipelines[p] IN
        /\ pipeline.status = FAILED
        /\ pipeline.error_message = Some(<<"boom">>)
        /\ pipeline.current_stage = RAG_PROCESSING
        /\ Get(pipeline.completed_at) = pipeline.stage_start_times[RAG_PROCESSING]
        /\ Get(pipeline.completed_at) - pipeline.started_at
              <= pipeline_config.total_pipeline_timeout

\* a step that raises nothing, returns nothing, sends nothing and leaves both dicts
\* (so every pipeline record) and the counters as they were
Silent == last' = Nothing /\ UNCHANGED <<pipelines, metrics>>

\* C8: a data handler or handle_task_failed, called with a message whose correlation
\* id is absent or whose extracted pipeline id is not in active_pipelines, is a
\* silent no-op: no step that is not silent is such a call
C8_SilentDrop ==
    [][~Silent =>
          /\ \A m \in RawDataMessages : ~(Unresolved(m) /\ handle_raw_data(m))
          /\ \A m \in CleanDataMessages : ~(Unresolved(m) /\ handle_clean_data(m))
          /\ \A m \in InsightsMessages : ~(Unresolved(m) /\ handle_insights(m))
          /\ \A m \in ReportReadyMessages : ~(Unresolved(m) /\ handle_report_ready(m))
          /\ \A m \in TaskFailedMessages : ~(Unresolved(m) /\ handle_task_failed(m))
      ]_vars

\* the state a stale reply leaves: nothing returned or sent, and the cancelled
\* pipeline the reply was for still without a data fetch result
C8_Witness ==
    /\ last = Nothing
    /\ \E p \in DOMAIN completed_pipelines :
          /\ completed_pipelines[p].status = CANCELLED
          /\ completed_pipelines[p].current_stage = DATA_FETCH
          /\ completed_pipelines[p].data_fetch_result = None
          /\ \E m \in RawDataMessages :
                _extract_pipeline_id(m.metadata.correlation_id) = Some(p)

\* the arguments _complete_pipeline and cancel_pipeline are tried with
Ids == PipelineIds \cup {<<"unknown">>}
Errors == {None, Some(<<"boom">>)}

\* C9: cancel_pipeline and _complete_pipeline, called in any reachable state on a
\* pipeline id that is not in active_pipelines, change nothing: both dicts with the
\* records in them and the counters stay as they are
C9_Idempotent ==
    \A p \in Ids \ DOMAIN active_pipelines :
        /\ \A r \in CancelReasons : cancel_pipeline(Self, p, r) = Self
        /\ \A success \in BOOLEAN, error \in Errors :
              _complete_pipeline(Self, p, success, error) = Self

\* a pipeline failed by TASK_FAILED was counted once, and a later call changed
\* neither its record nor the count
C9_Witness ==
    /\ last = Nothing
    /\ failed_pipelines = 1
    /\ total_pipelines_executed = 1
    /\ \E p \in DOMAIN completed_pipelines :
          /\ completed_pipelines[p].status = FAILED
          /\ completed_pipelines[p].error_message = Some(<<"Unknown", "error">>)
          /\ Get(completed_pipelines[p].completed_at) < now

\* C10: a tick of the monitoring loop moves every active pipeline that started more
\* than total_pipeline_timeout ago to completed_pipelines, with status Failed and
\* an error message that holds the word timeout, whatever its stage
C10_MonitorTimeout ==
    [][MonitorTick =>
          \A p \in DOMAIN active_pipelines :
             now - active_pipelines[p].started_at > pipeline_config.total_pipeline_timeout =>
                /\ p \notin DOMAIN active_pipelines'
                /\ p \in DOMAIN completed_pipelines'
                /\ completed_pipelines'[p].status = FAILED
                /\ completed_pipelines'[p].error_message # None
                /\ Contains(Get(completed_pipelines'[p].error_message), "timeout")
      ]_vars

\* the monitor failed a pipeline that was in NORMALIZATION
C10_Witness ==
    \E p \in DOMAIN completed_pipelines :
        /\ completed_pipelines[p].status = FAILED
        /\ completed_pipelines[p].error_message # None
        /\ Contains(Get(completed_pipelines[p].error_message), "timeout")
        /\ completed_pipelines[p].current_stage = NORMALIZATION

\* the text names the stage: stage.value stands in it
Names(text, stage) ==
    \E i \in 1..Len(text) :
        /\ i + Len(StageValue(stage)) - 1 <= Len(text)
        /\ SubSeq(text, i, i + Len(StageValue(stage)) - 1) = StageValue(stage)

\* the wait of the task entered at start_time is over and the completion of the
\* stage was not recorded within the stage's timeout
Expired(pipeline, stage, start_time) ==
    /\ now - start_time >= _get_stage_timeout(stage)
    /\ \/ stage \notin DOMAIN pipeline.stage_completion_times
       \/ pipeline.stage_completion_times[stage] - start_time >= _get_stage_timeout(stage)

\* C11: when the execution task of an active pipeline polls after the timeout of
\* the stage it waits on, and the completion of that stage was not recorded within
\* the timeout, the step finalizes the pipeline with status Failed (never
\* Completed) and an error message that names the stage
C11_StageTimeout ==
    [][\A p \in DOMAIN active_pipelines :
          (/\ p \in DOMAIN tasks
           /\ tasks[p].pc = "waiting"
           /\ Expired(active_pipelines[p], tasks[p].stage, Get(tasks[p].start_time))
           /\ ExecuteWake(p)) =>
             /\ p \notin DOMAIN active_pipelines'
             /\ p \in DOMAIN completed_pipelines'
             /\ completed_pipelines'[p].status = FAILED
             /\ completed_pipelines'[p].error_message # None
             /\ Names(Get(completed_pipelines'[p].error_message), tasks[p].stage)
             /\ Contains(Get(completed_pipelines'[p].error_message), "timed")
      ]_vars

\* a pipeline failed in NORMALIZATION, one clock unit after it entered the stage,
\* with the stage's timeout in its error message
C11_Witness ==
    \E p \in DOMAIN completed_pipelines :
        LET pipeline == completed_pipelines[p] IN
        /\ pipeline.status = FAILED
        /\ pipeline.current_stage = NORMALIZATION
        /\ NORMALIZATION \notin DOMAIN pipeline.stage_completion_times
        /\ pipeline.error_message # None
        /\ Names(Get(pipeline.error_message), NORMALIZATION)
        /\ Get(pipeline.completed_at) - pipeline.stage_start_times[NORMALIZATION]
              = pipeline_config.normalization_timeout

\* C12: every pipeline start_pipeline created leaves active_pipelines in the end and
\* stands in completed_pipelines with status Completed, Failed or Cancelled, when
\* the execution task, its poll timer and the clock make progress, whatever the
\* workers, the callers and the monitoring loop do or fail to do
C12_Terminates ==
    \A p \in PipelineIds :
        (p \in DOMAIN active_pipelines) ~>
            (/\ p \notin DOMAIN active_pipelines
             /\ p \in DOMAIN completed_pipelines
             /\ Terminal(completed_pipelines[p]))

\* no worker replied, nobody cancelled and the monitor did nothing: the execution
\* task failed the pipeline when the wait for DATA_FETCH timed out
C12_Witness ==
    \E p \in DOMAIN completed_pipelines :
        LET pipeline == completed_pipelines[p] IN
        /\ pipeline.status = FAILED
        /\ pipeline.data_fetch_result = None
        /\ pipeline.current_stage = DATA_FETCH
        /\ pipeline.error_message # None
        /\ Names(Get(pipeline.error_message), DATA_FETCH)
        /\ Contains(Get(pipeline.error_message), "timed")
        /\ tasks[p].pc = "finished"

\* C13: once cancel_pipeline has finalized a pipeline whose execution task sleeps in
\* a stage wait, the next poll of that task ends the wait: the task does not go
\* back to sleep
C13_CancelEndsWait ==
    [][\A p \in DOMAIN completed_pipelines :
          (/\ completed_pipelines[p].status = CANCELLED
           /\ p \in DOMAIN tasks
           /\ tasks[p].pc = "waiting"
           /\ ExecuteWake(p)) =>
             tasks'[p].pc # "waiting"
      ]_vars

\* the stages in pipeline order
StageOrder == <<DATA_FETCH, NORMALIZATION, RAG_PROCESSING, REPORT_GENERATION, DASHBOARD_READY>>

\* the completion times that are set do not decrease along the stage order
Ordered(times) ==
    \A i \in 1..Len(StageOrder), j \in 1..Len(StageOrder) :
        (i < j /\ StageOrder[i] \in DOMAIN times /\ StageOrder[j] \in DOMAIN times) =>
            times[StageOrder[i]] <= times[StageOrder[j]]

\* C14 as claimed: the stage completion times of every pipeline with status
\* Completed do not decrease in stage order, in whatever order and number the
\* workers' messages arrived
C14_OrderedWhateverArrives ==
    \A p \in DOMAIN completed_pipelines :
        completed_pipelines[p].status = COMPLETED =>
            Ordered(completed_pipelines[p].stage_completion_times)

\* C14: the stage completion times of every pipeline with status Completed do not
\* decrease in stage order, when each worker message for the pipeline arrived in
\* turn: once, after the request it answers and after the reply of the stage before
C14_OrderedInTurn ==
    \A p \in DOMAIN completed_pipelines :
        (completed_pipelines[p].status = COMPLETED /\ strays = 0) =>
            Ordered(completed_pipelines[p].stage_completion_times)

\* a pipeline completed on in-turn messages only, its data fetched at one time and
\* its report ready at a later one
C14_Witness ==
    /\ strays = 0
    /\ \E p \in DOMAIN completed_pipelines :
          LET pipeline == completed_pipelines[p] IN
          /\ pipeline.status = COMPLETED
          /\ pipeline.stage_completion_times[DATA_FETCH]
                < pipeline.stage_completion_times[REPORT_GENERATION]

\* C15: start_pipeline with no arguments, when it is not refused, returns a fresh
\* id without any stage begun: the new pipeline is in active_pipelines with status
\* PENDING, current_stage INIT, the default tables and filters and a date range of
\* default_date_range_days (90) days ending today, its execution task only
\* scheduled; and a PENDING pipeline turns RUNNING only in a step in which its
\* scheduled execution task runs.
C15_StartDefaults ==
    /\ [][(~AtCapacity(Self) /\ start_pipeline(None, None, None)) =>
             /\ last'.raised = NoException
             /\ last'.ret # None
             /\ Get(last'.ret) \notin DOMAIN active_pipelines \cup DOMAIN completed_pipelines
             /\ Get(last'.ret) \in DOMAIN active_pipelines'
             /\ LET pipeline == active_pipelines'[Get(last'.ret)] IN
                /\ pipeline.pipeline_id = Get(last'.ret)
                /\ pipeline.status = PENDING
                /\ pipeline.current_stage = INIT
                /\ pipeline.tables = <<"returns", "warranties", "products">>
                /\ pipeline.filters = DefaultFilters
                /\ pipeline.date_range.end = 0
                /\ pipeline.date_range.end - pipeline.date_range.start = 90
                /\ pipeline_config.default_date_range_days = 90
                /\ pipeline.stage_start_times = EmptyDict
                /\ pipeline.stage_completion_times = EmptyDict
             /\ tasks'[Get(last'.ret)].pc = "scheduled"
         ]_vars
    /\ [][\A p \in DOMAIN active_pipelines :
             (/\ active_pipelines[p].status = PENDING
              /\ p \in DOMAIN active_pipelines'
              /\ active_pipelines'[p].status = RUNNING) =>
                 /\ tasks[p].pc = "scheduled"
                 /\ tasks'[p].pc # "scheduled"
         ]_vars

C15_Witness ==
    \E p \in DOMAIN active_pipelines :
        /\ last.ret = Some(p)
        /\ active_pipelines[p].status = PENDING
        /\ active_pipelines[p].current_stage = INIT
        /\ active_pipelines[p].date_range = [start |-> 0 - 90, end |-> 0]
        /\ tasks[p].pc = "scheduled"

\* C16: when the coordinator is stopped, every pipeline active at that moment is in
\* completed_pipelines afterwards with status CANCELLED and error_message
\* "System shutdown", and active_pipelines is empty when _on_stop returns.
C16_StopCancelsAll ==
    [][_on_stop =>
          /\ active_pipelines' = EmptyDict
          /\ \A p \in DOMAIN active_pipelines :
                /\ p \in DOMAIN completed_pipelines'
                /\ completed_pipelines'[p].status = CANCELLED
                /\ completed_pipelines'[p].error_message = Some(<<"System", "shutdown">>)
      ]_vars

C16_Witness ==
    /\ active_pipelines = EmptyDict
    /\ Cardinality(DOMAIN completed_pipelines) = 2
    /\ \A p \in DOMAIN completed_pipelines :
          /\ completed_pipelines[p].status = CANCELLED
          /\ completed_pipelines[p].error_message = Some(<<"System", "shutdown">>)

\* C17: every finalization, through _complete_pipeline or through cancel_pipeline,
\* increments total_pipelines_executed and exactly one of successful_pipelines and
\* failed_pipelines, so that total_pipelines_executed always equals the number of
\* pipelines in completed_pipelines.
C17_CountersCoverFinalizations ==
    /\ total_pipelines_executed = Cardinality(DOMAIN completed_pipelines)
    /\ total_pipelines_executed = successful_pipelines + failed_pipelines

\* a step of send_message for a well-formed message whose recipient has no
\* registered agent returns True, puts the message last on the recipient's queue
\* and counts it as sent, not as delivered
QueuedForLater ==
    \A r \in Recipients :
        (/\ sends' = sends + 1
         /\ r \notin DOMAIN agents
         /\ send_message(Message(sends + 1, r, "well-formed"))) =>
            /\ last'.ret = Some(TRUE)
            /\ message_queues'[r] = Append(message_queues[r], Message(sends + 1, r, "well-formed"))
            /\ stats'.messages_sent = stats.messages_sent + 1
            /\ stats'.messages_delivered = stats.messages_delivered

\* the number of messages a step takes from the queue of r
Taken(r) == Len(message_queues[r]) - Len(message_queues'[r])

C19_FailuresCounted ==
    [][\A r \in Recipients, form \in Forms :
          (sends' = sends + 1 /\ send_message(Message(sends + 1, r, form))) =>
              /\ last'.raised = NoException
              /\ form # "well-formed" =>
                    /\ last'.ret = Some(FALSE)
                    /\ stats'.messages_failed = stats.messages_failed + 1
      ]_vars

\* the messages of message_history addressed to r, in the order send_message took them
HistoryFor(r) == SelectSeq(message_history, LAMBDA m : Get(m.metadata).recipient = r)

\* C20: per-recipient FIFO: of two messages send_message took for the same
\* recipient, the worker's receive_message is never invoked for the later one
\* before the earlier one, whatever sends to other recipients, direct calls of
\* get_messages, sweeps of the delivery loop and register/unregister calls come in
\* between.
C20_FifoPerRecipient ==
    \A r \in Recipients :
        \A i, j \in 1..Len(message_queue[r]) :
            i < j =>
                \E a, b \in 1..Len(HistoryFor(r)) :
                    /\ a < b
                    /\ HistoryFor(r)[a] = message_queue[r][i]
                    /\ HistoryFor(r)[b] = message_queue[r][j]

\* two messages reached a worker that is no longer registered, a message for the
\* other recipient having been sent as well
C20_Witness ==
    \E r \in Recipients :
        /\ Len(message_queue[r]) = 2
        /\ Len(HistoryFor(r)) = 2
        /\ Len(message_history) = 3
        /\ r \notin DOMAIN agents

\* the messages with a str id that send_message may have taken for r
Sendable(r) == {Message(n, r, "well-formed") : n \in 1..MaxSends}

\* is message m in sequence seq
In(m, seq) == \E i \in 1..Len(seq) : seq[i] = m

C22_RegistrationKeepsMessages ==
    [][/\ (Unregister \/ Register) => message_queues' = message_queues
       /\ \A w \in DOMAIN agents :
             (Taken(w) > 0 /\ delivery'.pc = "deliver") =>
                 /\ delivery'.agent = Some(agents[w])
                 /\ delivery'.messages = message_queues[w]
      ]_vars

\* C23: broadcast_message(m, [r1..rn]) puts on the queue of each ri a copy whose
\* metadata.recipient is ri: a message in (or delivered from) the queue of an
\* agent type names that agent type as its recipient; and the count returned is
\* the number of copies for which send_message returned True.
C23_CopiesNameTheirRecipient ==
    /\ [](\A r \in Recipients :
            /\ \A i \in 1..Len(message_queues[r]) :
                  Get(message_queues[r][i].metadata).recipient = r
            /\ \A i \in 1..Len(message_queue[r]) :
                  Get(message_queue[r][i].metadata).recipient = r)
    /\ [][\A recipients \in RecipientLists :
            (/\ sends' = sends + 1
             /\ StoreBroker(broadcast_message(SelfBroker, Typed(sends + 1, "HEARTBEAT", "well-formed"),
                                              recipients, 0))) =>
                 last'.ret = Some(Len(recipients))
         ]_vars

\* the messages of `messages` that are copies of message number n
Copies(messages, n) == SelectSeq(messages, LAMBDA m : Get(m.metadata).message_id.n = n)

\* C24: publish_message returns 0 and changes no queue, history or counter when
\* the message's type has no subscribers; otherwise, for a well-formed message, it
\* puts one copy last on the queue of each current subscriber of that type, leaves
\* every other queue as it was, and returns the number of sends that succeeded.
C24_PublishToSubscribers ==
    [][\A message_type \in MessageTypes, form \in CopiedForms :
         \A recipients \in Lists(Subscribers(Some(message_type))) :
           (/\ sends' = sends + 1
            /\ last'.ret # None
            /\ StoreBroker(publish_message(SelfBroker, Typed(sends + 1, message_type, form),
                                           recipients))) =>
               IF Subscribers(Some(message_type)) = {}
               THEN /\ last'.ret = Some(0)
                    /\ UNCHANGED <<message_queues, message_history, stats, pending_confirmations>>
               ELSE form = "well-formed" =>
                    /\ last'.ret = Some(Cardinality(Subscribers(Some(message_type))))
                    /\ stats'.messages_sent =
                          stats.messages_sent + Cardinality(Subscribers(Some(message_type)))
                    /\ \A r \in Recipients :
                          IF r \in Subscribers(Some(message_type))
                          THEN /\ Len(message_queues'[r]) = Len(message_queues[r]) + 1
                               /\ Len(Copies(message_queues'[r], sends + 1)) = 1
                               /\ LET copy == message_queues'[r][Len(message_queues'[r])] IN
                                  /\ copy.type = Some(message_type)
                                  /\ copy.payload = Typed(sends + 1, message_type, form).payload
                                  /\ Get(copy.metadata).message_id = MessageId(sends + 1, "str")
                          ELSE message_queues'[r] = message_queues[r]
      ]_vars

\* a message was published to the one subscriber of its type while the other agent
\* type subscribes to the other type only: one copy, on the subscriber's queue
C24_Witness ==
    /\ last.ret = Some(1)
    /\ sends = 1
    /\ DOMAIN subscriptions = MessageTypes
    /\ \E r, q \in Recipients, t, u \in MessageTypes :
          /\ r # q
          /\ t # u
          /\ subscriptions[t] = {r}
          /\ subscriptions[u] = {q}
          /\ Len(message_queues[r]) = 1
          /\ message_queues[r][1].type = Some(t)
          /\ message_queues[q] = << >>

\* C25: the message history is bounded: in every reachable state it holds at most
\* HistoryLimit messages, however many are sent between two passes of the cleanup
\* loop and whether or not the broker was started.
C25_HistoryBounded == Len(message_history) <= HistoryLimit

\* seq is what remains of messages after dropping its oldest elements
IsSuffix(seq, messages) ==
    /\ Len(seq) <= Len(messages)
    /\ seq = SubSeq(messages, Len(messages) - Len(seq) + 1, Len(messages))

\* C25, amended: after each pass of the cleanup loop in a running broker the
\* history holds at most the last HistoryLimit accepted messages, in the order
\* they were sent (all of them when there are no more than HistoryLimit); every
\* other step leaves the history as it was or adds the message just accepted at
\* its end, without bound until the next pass.
C25_HistoryTrimmedByCleanup ==
    [][IF is_running /\ Cleanup
       THEN /\ Len(message_history') = IF Len(message_history) > HistoryLimit
                                       THEN HistoryLimit
                                       ELSE Len(message_history)
            /\ IsSuffix(message_history', message_history)
       ELSE \/ message_history' = message_history
            \/ /\ sends' = sends + 1
               /\ Len(message_history') = Len(message_history) + 1
               /\ SubSeq(message_history', 1, Len(message_history)) = message_history
               /\ Get(message_history'[Len(message_history')].metadata).message_id.n = sends'
      ]_vars

\* a pass of the cleanup loop has cut a history of more than HistoryLimit
\* messages down to its newest HistoryLimit ones
C25_Witness ==
    /\ cleanup = "loop"
    /\ is_running
    /\ sends = MaxSends
    /\ Len(message_queues[COORDINATOR]) + Len(message_queues[AGENT_DATA_FETCH]) > HistoryLimit
    /\ Len(message_history) = HistoryLimit
    /\ Get(message_history[HistoryLimit].metadata).message_id.n = MaxSends
    /\ Get(message_history[1].metadata).message_id.n = MaxSends - HistoryLimit + 1

\* the TASK_FAILED messages addressed to the coordinator among `messages`
Failures(messages) ==
    SelectSeq(messages, LAMBDA m : m.type = "TASK_FAILED" /\ m.metadata.recipient = COORDINATOR)

\* the retry wrapper of the worker is exhausted: its last attempt failed
Exhausted == worker.pc = "done" /\ worker.raised # NoException

\* C26: when a worker's handler keeps failing until the retry wrapper is exhausted,
\* exactly one TASK_FAILED message addressed to the coordinator is produced, with
\* the error text and the correlation id of the message being processed; and when
\* that message reaches the coordinator, handle_task_failed finalizes the pipeline
\* the processed message belongs to as Failed.
C26_FailureReported ==
    /\ [](Exhausted =>
            /\ Len(Failures(worker.sent)) = 1
            /\ Failures(worker.sent)[1].payload.error = QueryError
            /\ Failures(worker.sent)[1].metadata.correlation_id =
                  Get(worker.message).metadata.correlation_id)
    /\ [][\A p \in DOMAIN active_pipelines :
            (/\ Exhausted
             /\ _extract_pipeline_id(Get(worker.message).metadata.correlation_id) = Some(p)
             /\ worker.routed < Len(worker.sent)
             /\ worker.sent[worker.routed + 1].type = "TASK_FAILED"
             /\ Route) =>
               /\ p \in DOMAIN completed_pipelines'
               /\ completed_pipelines'[p].status = FAILED
         ]_vars

\* C30: the retry wrapper invokes the handler at most max_retries + 1 times for one
\* message; it stops at the first invocation that succeeds and returns its result;
\* before the k-th retry it waits retry_delay * 2^(k-1): the first delay is
\* retry_delay and each later one twice the one before; after the last failed
\* attempt, and only then, it raises that failure; and it always terminates.
C30_RetryWrapper ==
    /\ [](worker.pc # "idle" =>
            LET config == Get(worker.config) IN
            /\ worker.calls <= config.max_retries + 1
            /\ Len(worker.sent) = worker.calls
            /\ \A k \in 1..Len(worker.slept) :
                  worker.slept[k] = IF k = 1 THEN config.retry_delay
                                    ELSE 2 * worker.slept[k - 1]
            /\ worker.pc = "call" =>
                  worker.calls = worker.attempt /\ Len(worker.slept) = worker.attempt
            /\ worker.pc = "sleep" =>
                  worker.calls = worker.attempt /\ Len(worker.slept) = worker.attempt - 1
            /\ \A i \in 1..Len(worker.sent) :
                  worker.sent[i].type = "RAW_DATA" =>
                      /\ i = Len(worker.sent)
                      /\ worker.pc = "done"
                      /\ worker.raised = NoException
                      /\ worker.result = Some(worker.sent[i])
            /\ worker.pc = "done" =>
                  /\ Len(worker.slept) = worker.calls - 1
                  /\ IF worker.sent[worker.calls].type = "RAW_DATA"
                     THEN worker.raised = NoException
                     ELSE /\ worker.raised = "Exception"
                          /\ worker.result = None
                          /\ worker.calls = config.max_retries + 1)
    /\ [][worker.pc = "done" => worker' = worker]_vars
    /\ (worker.pc # "idle") ~> (worker.pc = "done")

\* with max_retries = MaxRetries and retry_delay = 2 every attempt failed: the
\* handler ran MaxRetries + 1 times, after delays of 2, 4, ... seconds, and the
\* failure was raised
C30_Witness ==
    /\ worker.pc = "done"
    /\ worker.raised = "Exception"
    /\ Get(worker.config) = AgentConfig(MaxRetries, 2)
    /\ worker.calls = MaxRetries + 1
    /\ Len(worker.slept) = MaxRetries
    /\ worker.slept[1] = 2
    /\ worker.slept[2] = 4

\* C27: for every message m with a JSON-native payload, BaseMessage.from_json(
\* m.to_json()) equals m: in type, in every metadata field (message id, sender,
\* recipient, timestamp, correlation id, also when it is None, retry count) and in
\* payload.
C27_RoundTrip ==
    wire.parsed # None =>
        LET m == Get(wire.message)
            parsed == Get(wire.parsed)
        IN  /\ parsed.type = m.type
            /\ parsed.metadata.message_id = m.metadata.message_id
            /\ parsed.metadata.sender = m.metadata.sender
            /\ parsed.metadata.recipient = m.metadata.recipient
            /\ parsed.metadata.timestamp = m.metadata.timestamp
            /\ parsed.metadata.correlation_id = m.metadata.correlation_id
            /\ parsed.metadata.retry_count = m.metadata.retry_count
            /\ parsed.payload = m.payload
            /\ parsed = m

\* a message without correlation id, with microseconds in its timestamp, a
\* retry count that is not the default and a nested payload was read back
C27_Witness ==
    /\ wire.parsed # None
    /\ Get(wire.message).metadata.correlation_id = None
    /\ Get(wire.message).metadata.timestamp.microsecond # 0
    /\ Get(wire.message).metadata.retry_count = 2
    /\ "filters" \in DOMAIN Get(wire.message).payload
    /\ Get(wire.json).members.metadata.members.correlation_id.json = "null"

\* the step sent one message, whose correlation id is the pipeline id of the
\* incoming message followed by the suffix of `stage`
SentForStage(message, stage) ==
    /\ Len(last'.sent) = 1
    /\ last'.sent[1].metadata.correlation_id =
          Some(CorrelationId(Get(_extract_pipeline_id(message.metadata.correlation_id)), stage))

\* C28: the next-stage message a data handler forwards carries a correlation id
\* with the pipeline id of the incoming message and the suffix of the stage being
\* initiated, not the suffix of the stage that just completed.
C28_NewStageSuffix ==
    [][/\ \A m \in RawDataMessages :
            (~Dropped(Self, _extract_pipeline_id(m.metadata.correlation_id))
                /\ handle_raw_data(m)) => SentForStage(m, NORMALIZATION)
       /\ \A m \in CleanDataMessages :
            (~Dropped(Self, _extract_pipeline_id(m.metadata.correlation_id))
                /\ handle_clean_data(m)) => SentForStage(m, RAG_PROCESSING)
       /\ \A m \in InsightsMessages :
            (~Dropped(Self, _extract_pipeline_id(m.metadata.correlation_id))
                /\ handle_insights(m)) => SentForStage(m, REPORT_GENERATION)
       /\ \A m \in ReportReadyMessages :
            (~Dropped(Self, _extract_pipeline_id(m.metadata.correlation_id))
                /\ handle_report_ready(m)) => SentForStage(m, DASHBOARD_READY)
      ]_vars

\* C29: in every reachable state, every pipeline with status Failed or Cancelled
\* has an error_message that is not None, and every pipeline with status Pending,
\* Running or Completed has error_message None.
C29_ErrorMessageIffFailed ==
    /\ \A p \in DOMAIN active_pipelines :
          (active_pipelines[p].status \in {FAILED, CANCELLED})
              <=> (active_pipelines[p].error_message # None)
    /\ \A p \in DOMAIN completed_pipelines :
          (completed_pipelines[p].status \in {FAILED, CANCELLED})
              <=> (completed_pipelines[p].error_message # None)

\* of two pipelines one was cancelled and keeps the reason, the other completed
\* and has no error message
C29_Witness ==
    \E p, q \in DOMAIN completed_pipelines :
        /\ completed_pipelines[p].status = CANCELLED
        /\ completed_pipelines[p].error_message \in {Some(r) : r \in CancelReasons}
        /\ completed_pipelines[q].status = COMPLETED
        /\ completed_pipelines[q].error_message = None

\* the stages of _execute_pipeline in the order it enters them, after INIT
Progress == <<INIT>> \o StageOrder

StageIndex(stage) == CHOOSE i \in 1..Len(Progress) : Progress[i] = stage

\* the stages _execute_pipeline waits for with _wait_for_stage_completion
Awaited == {DATA_FETCH, NORMALIZATION, RAG_PROCESSING, REPORT_GENERATION}

\* the pipeline's record moved from `before` to `after`: current_stage did not go
\* back, every stage between the two was entered by _execute_stage (which records
\* its start), and every awaited stage left behind was recorded complete
MovedForward(before, after) ==
    LET i == StageIndex(before.current_stage)
        j == StageIndex(after.current_stage) IN
    /\ i <= j
    /\ \A k \in (i + 1)..j : Progress[k] \in DOMAIN after.stage_start_times
    /\ \A k \in i..(j - 1) :
          Progress[k] \in Awaited =>
              Progress[k] \in DOMAIN before.stage_completion_times

\* C31: for every pipeline, current_stage only moves forward along INIT,
\* DATA_FETCH, NORMALIZATION, RAG_PROCESSING, REPORT_GENERATION, DASHBOARD_READY,
\* one stage at a time: it never moves backwards, no stage is skipped (each stage
\* the execution task passes between two of its suspension points was entered
\* through _execute_stage), and it moves past an awaited stage only when that
\* stage is in stage_completion_times, whatever order the workers' messages
\* arrive in.  A new pipeline starts at INIT.
C31_StageForward ==
    [][\A p \in PipelineIds :
          LET known == p \in DOMAIN active_pipelines \cup DOMAIN completed_pipelines
              known_after == p \in DOMAIN active_pipelines' \cup DOMAIN completed_pipelines' IN
          /\ known => known_after
          /\ (known /\ known_after) => MovedForward(Object(Self, p), Object(Self, p)')
          /\ (~known /\ known_after) => Object(Self, p)'.current_stage = INIT
      ]_vars

\* a message arrived out of turn, and a pipeline went through every stage to
\* DASHBOARD_READY
C31_Witness ==
    /\ strays > 0
    /\ \E p \in DOMAIN completed_pipelines :
          /\ completed_pipelines[p].status = COMPLETED
          /\ completed_pipelines[p].current_stage = DASHBOARD_READY
          /\ DOMAIN completed_pipelines[p].stage_start_times = {DATA_FETCH, NORMALIZATION, RAG_PROCESSING, REPORT_GENERATION, DASHBOARD_READY}

\* the pipeline's stage_completion_times, in whichever dict holds the pipeline
Completions(pipeline_id) == DOMAIN Object(Self, pipeline_id).stage_completion_times

\* C32: in every pipeline record, active or finalized, REPORT_GENERATION is in
\* stage_completion_times exactly when DASHBOARD_READY is; a step that records
\* either of them is handle_report_ready for that pipeline, which records both,
\* and no other step records either.
C32_ReportAndDashboardTogether ==
    /\ [](\A p \in DOMAIN active_pipelines \cup DOMAIN completed_pipelines :
            REPORT_GENERATION \in Completions(p) <=> DASHBOARD_READY \in Completions(p))
    /\ [][\A p \in DOMAIN active_pipelines \cup DOMAIN completed_pipelines :
            (/\ p \in DOMAIN active_pipelines' \cup DOMAIN completed_pipelines'
             /\ Completions(p)' \cap {REPORT_GENERATION, DASHBOARD_READY}
                    # Completions(p) \cap {REPORT_GENERATION, DASHBOARD_READY})
            => /\ {REPORT_GENERATION, DASHBOARD_READY} \subseteq Completions(p)'
               /\ \E m \in ReportReadyMessages : Resolves(m, p) /\ handle_report_ready(m)
      ]_vars

\* a REPORT_READY message reached a pipeline before its execution task got to
\* REPORT_GENERATION, and both marks are set
C32_Witness ==
    \E p \in DOMAIN active_pipelines :
        /\ active_pipelines[p].current_stage \in {DATA_FETCH, NORMALIZATION}
        /\ {REPORT_GENERATION, DASHBOARD_READY} \subseteq DOMAIN active_pipelines[p].stage_completion_times
        /\ active_pipelines[p].report_result # None

----------------------------------------------------------------------------
(* The FETCH_DATA request *)

\* arguments of start_pipeline: absent, an empty list, one table; absent, one filter
TablesGiven == {None, Some(<< >>), Some(<<"returns">>)}
FiltersGiven == {None, Some([category |-> <<"all">>])}

\* start_pipeline is called with or without tables and filters
StartWith ==
    /\ uuids < MaxPipelines
    /\ \E t \in TablesGiven, f \in FiltersGiven : start_pipeline(None, t, f)
    /\ UNCHANGED environment

(* Pipelines started with the caller's tables and filters, every worker message in *)
(* turn, the clock standing still.                                                 *)
NextFetch ==
    \/ StartWith
    \/ Execute
    \/ Wake
    \/ RawData(0)
    \/ CleanData(0)
    \/ Insights(0)
    \/ ReportReady(0)

SpecFetch == Init /\ [][NextFetch]_vars

\* the stages _execute_stage entered for the pipeline in the step
Entered(pipeline_id) ==
    DOMAIN Object(Self, pipeline_id)'.stage_start_times
        \ DOMAIN Object(Self, pipeline_id).stage_start_times

\* the FETCH_DATA message C33 describes for the pipeline
FetchRequest(pipeline) ==
    create_message("FETCH_DATA", COORDINATOR, AGENT_DATA_FETCH,
                   [date_range |-> pipeline.date_range, tables |-> pipeline.tables,
                    filters |-> pipeline.filters],
                   Some(pipeline.pipeline_id \o <<"_", "data", "_", "fetch">>))

\* C33: the coordinator sends FETCH_DATA at most once per pipeline: only the step
\* that enters DATA_FETCH sends it, a stage once entered stays entered, and the
\* message is addressed to the data fetch worker with correlation id
\* "<pipelineId>_data_fetch" and the pipeline's date range, tables and filters;
\* entering NORMALIZATION, RAG_PROCESSING, REPORT_GENERATION or DASHBOARD_READY
\* through _execute_stage sends no message.
C33_FetchDataOnce ==
    [][/\ \A p \in DOMAIN active_pipelines :
            /\ DOMAIN active_pipelines[p].stage_start_times
                   \subseteq DOMAIN Object(Self, p)'.stage_start_times
            /\ Entered(p) # {} =>
                  last'.sent = IF DATA_FETCH \in Entered(p)
                               THEN <<FetchRequest(active_pipelines[p])>>
                               ELSE << >>
       /\ \A i \in 1..Len(last'.sent) :
            last'.sent[i].type = "FETCH_DATA" =>
                \E p \in DOMAIN active_pipelines : DATA_FETCH \in Entered(p)
      ]_vars

----------------------------------------------------------------------------
(* get_messages as the delivery loop calls it *)

\* get_messages returned a list that is not empty to the delivery task
GotMessages == delivery.pc \in {"sweep", "get"} /\ delivery'.pc = "deliver"

\* get_messages returned [] to the delivery task: the wait for the first message
\* timed out
GotNothing == delivery.pc = "get" /\ delivery'.pc = "sweep"

\* C34: get_messages(worker, timeout) returns the empty list when no message
\* arrives within the timeout, and then changes nothing; otherwise it returns, in
\* FIFO order, the first message and every message in the worker's queue at that
\* moment, removes exactly those from the queue, leaves every other queue
\* unchanged and increases messages_delivered by the number of messages returned.
C34_GetMessages ==
    [][/\ GotMessages =>
            LET r == Get(delivery'.agent_type) IN
            /\ message_queues[r] # << >>
            /\ delivery'.messages = message_queues[r]
            /\ message_queues' = [message_queues EXCEPT ![r] = << >>]
            /\ stats' = [stats EXCEPT !.messages_delivered = @ + Len(delivery'.messages)]
       /\ GotNothing =>
            /\ message_queues[Get(delivery.agent_type)] = << >>
            /\ UNCHANGED <<message_queues, stats>>
      ]_vars

\* get_messages returned two messages of one worker in the order they were sent,
\* while the other worker's queue kept its message
C34_Witness ==
    /\ delivery.pc = "deliver"
    /\ Len(delivery.messages) = 2
    /\ Get(delivery.messages[1].metadata).message_id.n
           < Get(delivery.messages[2].metadata).message_id.n
    /\ stats.messages_delivered = 2
    /\ \E r \in Recipients : Len(message_queues[r]) = 1

----------------------------------------------------------------------------
(* The counters and the finalized pipelines *)

\* the number of pipelines in completed_pipelines with the status
WithStatus(status) ==
    Cardinality({p \in DOMAIN completed_pipelines : completed_pipelines[p].status = status})

\* C35: in every reachable state total_pipelines_executed = successful_pipelines
\* + failed_pipelines, successful_pipelines is the number of pipelines in
\* completed_pipelines with status Completed, and failed_pipelines is the number
\* with status Failed.
C35_CountersMatchStatuses ==
    /\ total_pipelines_executed = successful_pipelines + failed_pipelines
    /\ successful_pipelines = WithStatus(COMPLETED)
    /\ failed_pipelines = WithStatus(FAILED)

\* one pipeline completed, one failed, both counted
C35_Witness ==
    /\ successful_pipelines = 1
    /\ failed_pipelines = 1
    /\ total_pipelines_executed = 2
    /\ WithStatus(COMPLETED) = 1
    /\ WithStatus(FAILED) = 1

\* the pipeline went through the whole flow: every stage recorded complete, every
\* worker's result kept, the last stage entered
WentThrough(pipeline) ==
    /\ {DATA_FETCH, NORMALIZATION, RAG_PROCESSING, REPORT_GENERATION, DASHBOARD_READY}
           \subseteq DOMAIN pipeline.stage_completion_times
    /\ pipeline.data_fetch_result # None
    /\ pipeline.normalization_result # None
    /\ pipeline.rag_result # None
    /\ pipeline.report_result # None
    /\ pipeline.current_stage = DASHBOARD_READY

\* C36: a pipeline has status Completed only if DATA_FETCH, NORMALIZATION,
\* RAG_PROCESSING, REPORT_GENERATION and DASHBOARD_READY are all in its
\* stage_completion_times, its four result fields are set and its current_stage
\* is DASHBOARD_READY.
C36_CompletedWentThrough ==
    \A p \in DOMAIN active_pipelines \cup DOMAIN completed_pipelines :
        Object(Self, p).status = COMPLETED => WentThrough(Object(Self, p))

\* a pipeline completed some time after it started, although a message had
\* reached it out of turn
C36_Witness ==
    /\ strays > 0
    /\ \E p \in DOMAIN completed_pipelines :
          /\ completed_pipelines[p].status = COMPLETED
          /\ WentThrough(completed_pipelines[p])
          /\ Get(completed_pipelines[p].completed_at) > completed_pipelines[p].started_at

\* C37: a stage is never recorded complete before it is recorded started: in
\* every reachable state of a pipeline driven by start_pipeline and the workers'
\* replies, every stage in stage_completion_times is also in stage_start_times,
\* with a start time not after the completion time, even when a worker replies
\* before the execution task's next poll.
C37_StartedBeforeComplete ==
    \A p \in DOMAIN active_pipelines \cup DOMAIN completed_pipelines :
        LET pipeline == Object(Self, p) IN
        \A stage \in DOMAIN pipeline.stage_completion_times :
            /\ stage \in DOMAIN pipeline.stage_start_times
            /\ pipeline.stage_start_times[stage] <= pipeline.stage_completion_times[stage]

----------------------------------------------------------------------------
(* Routing isolation *)

\* every pipeline other than `pipeline_id` is where it was, its record as it was,
\* and the counters moved only if `pipeline_id` was finalized in the step
OthersUntouched(pipeline_id) ==
    /\ DOMAIN active_pipelines' \ {pipeline_id} = DOMAIN active_pipelines \ {pipeline_id}
    /\ DOMAIN completed_pipelines' \ {pipeline_id} = DOMAIN completed_pipelines \ {pipeline_id}
    /\ \A q \in (DOMAIN active_pipelines \cup DOMAIN completed_pipelines) \ {pipeline_id} :
          Object(Self, q)' = Object(Self, q)
    /\ \/ UNCHANGED metrics
       \/ /\ pipeline_id \in DOMAIN active_pipelines
          /\ pipeline_id \in DOMAIN completed_pipelines'

\* C38: a data message or a TASK_FAILED message whose correlation id resolves to
\* the active pipeline p changes only p's record, and the global counters when it
\* finalizes p; every other pipeline stays in its dict with its status, stage,
\* results and completion times unchanged.
C38_RoutingIsolation ==
    [][\A p \in DOMAIN active_pipelines :
          /\ \A m \in RawDataMessages :
                (Resolves(m, p) /\ handle_raw_data(m)) => OthersUntouched(p)
          /\ \A m \in CleanDataMessages :
                (Resolves(m, p) /\ handle_clean_data(m)) => OthersUntouched(p)
          /\ \A m \in InsightsMessages :
                (Resolves(m, p) /\ handle_insights(m)) => OthersUntouched(p)
          /\ \A m \in ReportReadyMessages :
                (Resolves(m, p) /\ handle_report_ready(m)) => OthersUntouched(p)
          /\ \A m \in TaskFailedMessages :
                (Resolves(m, p) /\ handle_task_failed(m)) => OthersUntouched(p)
      ]_vars

\* two pipelines were active, a message for one of them was handled, and the other
\* one is still as start_pipeline created it
C38_Witness ==
    \E p, q \in DOMAIN active_pipelines :
        /\ p # q
        /\ DATA_FETCH \in DOMAIN active_pipelines[p].stage_completion_times
        /\ last.sent # << >>
        /\ last.sent[1].type = "NORMALIZE_DATA"
        /\ active_pipelines[q].status = PENDING
        /\ active_pipelines[q].stage_completion_times = EmptyDict

----------------------------------------------------------------------------
(* At-most-once hand-off *)

\* the queue entries still waiting in the broker's queues
Queued ==
    UNION {{<<r, Get(message_queues[r][i].metadata).message_id>> :
               i \in 1..Len(message_queues[r])} : r \in Recipients}

\* C39: no queue entry accepted by send_message is passed to receive_message more
\* than once, under any interleaving of the senders and the delivery tasks,
\* including after start() was called twice so that two delivery loops take from
\* the same queues; an entry whose delivery raised is not handed over again, and
\* an entry that was handed over is no longer in its queue.
C39_AtMostOnce ==
    /\ \A entry \in DOMAIN handoffs : handoffs[entry] <= 1
    /\ Queued \cap DOMAIN handoffs = {}

\* both delivery loops hold a batch at the same time, after a delivery that raised
C39_Witness ==
    /\ delivery.pc = "deliver"
    /\ delivery2.pc = "deliver"
    /\ stats.messages_failed >= 1
    /\ \E entry \in DOMAIN handoffs : handoffs[entry] = 1

----------------------------------------------------------------------------
(* _extract_pipeline_id called on its own *)

\* the longest text tried, beside the correlation ids the coordinator builds
MaxLen == 3

Alphabet == {"u", "1", "_"}

RECURSIVE Texts(_)
\* every str of at most n tokens
Texts(n) ==
    IF n = 0 THEN {<< >>}
    ELSE Texts(n - 1) \cup {Append(s, t) : s \in {x \in Texts(n - 1) : Len(x) = n - 1}, t \in Alphabet}

\* pipeline ids without an underscore
PlainIds == {s \in Texts(2) : s # << >> /\ \A i \in 1..Len(s) : s[i] # "_"}

\* the arguments: None, every short text, and f"{pipeline_id}_{stage.value}" for
\* every plain id and every stage
Arguments ==
    {None} \cup {Some(s) : s \in Texts(MaxLen)}
           \cup {Some(CorrelationId(id, stage)) : id \in PlainIds, stage \in PipelineStage}

\* coordinator._extract_pipeline_id(correlation_id)
Extract ==
    /\ ~extraction.called
    /\ extraction' = [extraction EXCEPT !.called = TRUE,
                                        !.ret = _extract_pipeline_id(extraction.correlation_id)]
    /\ last' = Nothing
    /\ UNCHANGED <<pipeline_config, active_pipelines, completed_pipelines,
                   total_pipelines_executed, successful_pipelines, failed_pipelines,
                   tasks, uuids, now, strays, broker, worker, wire>>

InitExtract ==
    /\ pipeline_config = PipelineConfig(2, 1, 2, 1, 1, 1)
    /\ active_pipelines = EmptyDict
    /\ completed_pipelines = EmptyDict
    /\ total_pipelines_executed = 0
    /\ successful_pipelines = 0
    /\ failed_pipelines = 0
    /\ tasks = EmptyDict
    /\ uuids = 0
    /\ now = 0
    /\ last = Nothing
    /\ strays = 0
    /\ MessageBroker
    /\ worker = DataFetchAgent
    /\ wire = Unsent
    /\ extraction \in {[NotCalled EXCEPT !.correlation_id = c] : c \in Arguments}

SpecExtract == InitExtract /\ [][Extract]_vars

\* the text before the first underscore of s, or s when it holds none
BeforeUnderscore(s) ==
    LET k == CHOOSE k \in 0..Len(s) :
                 /\ \A i \in 1..k : s[i] # "_"
                 /\ k = Len(s) \/ s[k + 1] = "_"
    IN  SubSeq(s, 1, k)

\* C40: _extract_pipeline_id returns None for an absent or empty correlation id,
\* and otherwise the text before the first underscore, the whole text when it
\* holds no underscore; hence for every pipeline id without an underscore and
\* every stage name s, the id extracted from "<id>_<s>" is the id.
C40_ExtractPipelineId ==
    extraction.called =>
        /\ extraction.ret =
              IF extraction.correlation_id = None \/ extraction.correlation_id = Some(<< >>)
              THEN None
              ELSE Some(BeforeUnderscore(Get(extraction.correlation_id)))
        /\ \A id \in PlainIds, stage \in PipelineStage :
              extraction.correlation_id = Some(id \o <<"_">> \o StageValue(stage))
                  => extraction.ret = Some(id)

\* the id was extracted from the correlation id of a stage whose name holds an
\* underscore
C40_Witness ==
    /\ extraction.called
    /\ extraction.correlation_id = Some(<<"u", "1", "_", "data", "_", "fetch">>)
    /\ extraction.ret = Some(<<"u", "1">>)

====
